---- MODULE Spec2Model ----
(***************************************************************************)
(* PhotoMatch: the CSV/photo matching pipeline of src/utils.ts, the        *)
(* publishing pass of src/App.tsx and the map of the Gallery.              *)
(*                                                                         *)
(* A JavaScript string is a sequence of characters.  A character is a      *)
(* one-character TLA+ string; a character outside ASCII is written as its  *)
(* UTF-16 code unit, "u043a" for U+043A.  null is the value NULL, a        *)
(* one-element sequence that is no string; an optional number is a         *)
(* sequence of zero or one numbers.  Coordinates are in units of 1/10000   *)
(* degree.                                                                 *)
(***************************************************************************)
EXTENDS Integers, Sequences, FiniteSets, TLC

NULL == <<"null">>

(* ---------------------------------------------------------------------- *)
(* String primitives of the JavaScript runtime, as the code uses them.    *)
(* ---------------------------------------------------------------------- *)
BOM == "ufeff"

UpperChars ==
    <<"A", "B", "C", "D", "E", "F", "G", "H", "I", "J", "K", "L", "M", "N", "O", "P", "Q", "R",
    "S", "T", "U", "V", "W", "X", "Y", "Z", "u0410", "u0411", "u0412", "u0413", "u0414",
    "u0415", "u0416", "u0417", "u0418", "u0419", "u041a", "u041b", "u041c", "u041d", "u041e",
    "u041f", "u0420", "u0421", "u0422", "u0423", "u0424", "u0425", "u0426", "u0427", "u0428",
    "u0429", "u042a", "u042b", "u042c", "u042d", "u042e", "u042f", "u0401">>

LowerChars ==
    <<"a", "b", "c", "d", "e", "f", "g", "h", "i", "j", "k", "l", "m", "n", "o", "p", "q", "r",
    "s", "t", "u", "v", "w", "x", "y", "z", "u0430", "u0431", "u0432", "u0433", "u0434",
    "u0435", "u0436", "u0437", "u0438", "u0439", "u043a", "u043b", "u043c", "u043d", "u043e",
    "u043f", "u0440", "u0441", "u0442", "u0443", "u0444", "u0445", "u0446", "u0447", "u0448",
    "u0449", "u044a", "u044b", "u044c", "u044d", "u044e", "u044f", "u0451">>

\* String.prototype.toLowerCase, one code unit at a time: the capital letters
\* of the basic Latin and of the Russian alphabet have a lower case.
LowerOf ==
    [c \in {UpperChars[n] : n \in 1..Len(UpperChars)} |->
        LowerChars[CHOOSE n \in 1..Len(UpperChars) : UpperChars[n] = c]]

UpperSet == DOMAIN LowerOf

LowerChar(c) == IF c \in UpperSet THEN LowerOf[c] ELSE c

toLowerCase(s) == [n \in 1..Len(s) |-> LowerChar(s[n])]

\* WhiteSpace and LineTerminator of ECMAScript (what trim() and \s remove),
\* restricted to the characters of the model; U+FEFF is one of them.
IsSpace(c) == c \in {" ", "\t", "\n", "\r", BOM}

IsDigit(c) == c \in {"0", "1", "2", "3", "4", "5", "6", "7", "8", "9"}

RECURSIVE trimStart(_)
trimStart(s) ==
    IF s # <<>> /\ IsSpace(Head(s)) THEN trimStart(Tail(s)) ELSE s

RECURSIVE trimEnd(_)
trimEnd(s) ==
    IF s # <<>> /\ IsSpace(s[Len(s)]) THEN trimEnd(SubSeq(s, 1, Len(s) - 1)) ELSE s

\* String.prototype.trim
trim(s) == trimEnd(trimStart(s))

\* String.prototype.includes: sub occurs in s as a contiguous run.
includes(s, sub) ==
    \E n \in 0..(Len(s) - Len(sub)) : SubSeq(s, n + 1, n + Len(sub)) = sub

\* The index of the last c in s, 0 when there is none.
LastIndexOf(s, c) ==
    IF \E n \in 1..Len(s) : s[n] = c
    THEN CHOOSE n \in 1..Len(s) : s[n] = c /\ \A m \in (n + 1)..Len(s) : s[m] # c
    ELSE 0

(* ---------------------------------------------------------------------- *)
(* normalizeFilename                                                      *)
(* ---------------------------------------------------------------------- *)
\* filename.replace(/\.[^/.]+$/, ""): the match starts at the last "." and
\* needs at least one character after it, none of them "/".
RemoveExtension(name) ==
    LET p == LastIndexOf(name, ".")
    IN  IF p > 0 /\ p < Len(name) /\ \A n \in (p + 1)..Len(name) : name[n] # "/"
        THEN SubSeq(name, 1, p - 1)
        ELSE name

\* name.replace(/\s*\(\d+\)$/, ""): "(", one or more digits, ")" at the very
\* end, with all the whitespace in front of it.
RemoveDuplicateSuffix(name) ==
    LET p == LastIndexOf(name, "(")
    IN  IF /\ name # <<>>
           /\ name[Len(name)] = ")"
           /\ p > 0
           /\ p + 1 < Len(name)
           /\ \A n \in (p + 1)..(Len(name) - 1) : IsDigit(name[n])
        THEN trimEnd(SubSeq(name, 1, p - 1))
        ELSE name

\* A normalization that also folds the letter case.
normalizeFilenameLowercased(filename) ==
    toLowerCase(trim(RemoveDuplicateSuffix(RemoveExtension(filename))))

normalizeFilename(filename) == trim(RemoveDuplicateSuffix(RemoveExtension(filename)))

(* ---------------------------------------------------------------------- *)
(* getValue.  A row (CsvData) is the sequence of its [k, v] properties in  *)
(* insertion order, which is the order of Object.keys for the keys that   *)
(* are not array indices; its keys are distinct.                          *)
(* ---------------------------------------------------------------------- *)
Min(S) == CHOOSE x \in S : \A y \in S : x <= y

\* The element of a one-element set.  The({F(x) : x \in {e}}) is F of the
\* value of e, which is computed once, as at a const declaration of the
\* code; a LET definition stands for its expression at every use.
The(S) == CHOOSE x \in S : TRUE

\* k.toLowerCase().trim() of each key of rowKeys; the callback of find
\* computes it anew for every alias, with the same result.
FoldedKeys(row) == [n \in 1..Len(row) |-> trim(toLowerCase(row[n].k))]

\* rowKeys.find(k => k.toLowerCase().trim() === key.toLowerCase()):
\* the position of the first such key, 0 for undefined.
FindKey(folded, key) ==
    LET lowered == toLowerCase(key)
        hits == {n \in 1..Len(folded) : folded[n] = lowered}
    IN  IF hits = {} THEN 0 ELSE Min(hits)

\* The loop over possibleKeys from alias n on.
RECURSIVE getValueFrom(_, _, _, _)
getValueFrom(row, folded, possibleKeys, n) ==
    IF n > Len(possibleKeys)
    THEN <<>>
    ELSE LET found == FindKey(folded, possibleKeys[n])
         IN  \* if (foundKey && row[foundKey]): both strings must be non-empty
             IF found > 0 /\ row[found].k # <<>> /\ row[found].v # <<>>
             THEN trim(row[found].v)
             ELSE getValueFrom(row, folded, possibleKeys, n + 1)

getValue(row, possibleKeys) ==
    The({ getValueFrom(row, folded, possibleKeys, 1) : folded \in {FoldedKeys(row)} })

(* ---------------------------------------------------------------------- *)
(* parseCSV                                                               *)
(* ---------------------------------------------------------------------- *)
\* text.replace(/\r\n/g, '\n')
RECURSIVE ReplaceCRLF(_)
ReplaceCRLF(s) ==
    IF s = <<>> THEN <<>>
    ELSE IF Len(s) >= 2 /\ s[1] = "\r" /\ s[2] = "\n"
         THEN <<"\n">> \o ReplaceCRLF(SubSeq(s, 3, Len(s)))
         ELSE <<s[1]>> \o ReplaceCRLF(Tail(s))

\* A cleaning that leaves the bare carriage returns in the text.
ReplaceCRKept(s) == s

\* .replace(/\r/g, '\n')
ReplaceCR(s) == [n \in 1..Len(s) |-> IF s[n] = "\r" THEN "\n" ELSE s[n]]

CleanText(text) == ReplaceCR(ReplaceCRLF(text))

\* An emit that keeps every record, blank lines too.
EmitRecordAlways(rows, record) == Append(rows, record)

\* rows.push(currentRow) at a record-terminating newline, only for a record
\* with more than one field or one non-empty field.
EmitRecord(rows, record) ==
    IF Len(record) > 1 \/ (Len(record) = 1 /\ record[1] # <<>>)
    THEN Append(rows, record)
    ELSE rows

\* A quote test that forgets to ask whether a quoted field is open.
IsEscapedQuoteAnywhere(inQuotes, nextIsQuote) == nextIsQuote

\* if (inQuotes && nextChar === '"'): the quote is the first of a doubled
\* quote inside a quoted field.
IsEscapedQuote(inQuotes, nextIsQuote) == inQuotes /\ nextIsQuote

\* The scanning loop, from character i of cleanText on, with the loop's
\* variables; its value is their state when the loop ends.
RECURSIVE ScanFrom(_, _, _, _, _, _)
ScanFrom(cleanText, i, rows, currentRow, currentValue, inQuotes) ==
    IF i > Len(cleanText)
    THEN [rows |-> rows, currentRow |-> currentRow, currentValue |-> currentValue,
          inQuotes |-> inQuotes]
    ELSE LET char == cleanText[i]
             nextIsQuote == i + 1 <= Len(cleanText) /\ cleanText[i + 1] = "\""
         IN  IF char = "\""
             THEN IF IsEscapedQuote(inQuotes, nextIsQuote)
                  THEN ScanFrom(cleanText, i + 2, rows, currentRow,
                                Append(currentValue, "\""), inQuotes)
                  ELSE ScanFrom(cleanText, i + 1, rows, currentRow, currentValue, ~inQuotes)
             ELSE IF char = "," /\ ~inQuotes
             THEN ScanFrom(cleanText, i + 1, rows, Append(currentRow, currentValue),
                           <<>>, inQuotes)
             ELSE IF char = "\n" /\ ~inQuotes
             THEN ScanFrom(cleanText, i + 1,
                           EmitRecord(rows, Append(currentRow, currentValue)),
                           <<>>, <<>>, inQuotes)
             ELSE ScanFrom(cleanText, i + 1, rows, currentRow,
                           Append(currentValue, char), inQuotes)

\* The flush of the unterminated last record after the loop.
FlushRecord(st) ==
    IF Len(st.currentRow) > 0 \/ st.currentValue # <<>>
    THEN Append(st.rows, Append(st.currentRow, st.currentValue))
    ELSE st.rows

\* The records (string[][]) the scanner leaves in rows.
ScanRecords(text) == FlushRecord(ScanFrom(CleanText(text), 1, <<>>, <<>>, <<>>, FALSE))

\* h.trim().replace(/^\uFEFF/, '')
CleanHeader(h) ==
    LET t == trim(h)
    IN  IF t # <<>> /\ Head(t) = BOM THEN Tail(t) ELSE t

Headers(rows) == [n \in 1..Len(rows[1]) |-> CleanHeader(rows[1][n])]

\* entry[header] = val on a row object: an existing key keeps its place.
SetProperty(entry, key, val) ==
    IF \E n \in 1..Len(entry) : entry[n].k = key
    THEN [n \in 1..Len(entry) |-> IF entry[n].k = key THEN [k |-> key, v |-> val]
                                                       ELSE entry[n]]
    ELSE Append(entry, [k |-> key, v |-> val])

\* A padding that repeats the record's first value.
ValueAtOrFirst(values, index) ==
    IF index <= Len(values) THEN values[index] ELSE values[1]

\* const val = values[index] || ''
ValueAt(values, index) == IF index <= Len(values) THEN values[index] ELSE <<>>

\* headers.forEach((header, index) => entry[header] = values[index] || '')
RECURSIVE ZipFrom(_, _, _, _)
ZipFrom(headers, values, index, entry) ==
    IF index > Len(headers)
    THEN entry
    ELSE ZipFrom(headers, values, index + 1,
                 SetProperty(entry, headers[index], ValueAt(values, index)))

\* An entry built by walking the values, not the headers.
MakeEntryByValues(headers, values) ==
    ZipFrom(SubSeq(headers, 1, IF Len(values) < Len(headers) THEN Len(values)
                                                             ELSE Len(headers)),
            values, 1, <<>>)

MakeEntry(headers, values) == ZipFrom(headers, values, 1, <<>>)

\* The loop over rows[1..]: a record of no field or of one empty field is
\* skipped.
RECURSIVE DataFrom(_, _, _)
DataFrom(rows, headers, i) ==
    IF i > Len(rows)
    THEN <<>>
    ELSE LET values == rows[i]
         IN  IF Len(values) = 0 \/ (Len(values) = 1 /\ values[1] = <<>>)
             THEN DataFrom(rows, headers, i + 1)
             ELSE <<MakeEntry(headers, values)>> \o DataFrom(rows, headers, i + 1)

BuildData(rows) == IF rows = <<>> THEN <<>> ELSE DataFrom(rows, Headers(rows), 2)

parseCSV(text) == BuildData(ScanRecords(text))

(* ---------------------------------------------------------------------- *)
(* getCoordinates                                                         *)
(* ---------------------------------------------------------------------- *)
\* The table's properties in the order of the object literal, which is the
\* order of Object.entries.
COORDINATE_DB ==
  <<
    [key |-> <<"u0430", "u043b", "u043c", "u0430", "-", "u0430", "u0442", "u0430">>, coords |-> <<432551, 769126>>],
    [key |-> <<"u0430", "u043b", "u043c", "u0430", "u0442", "u044b">>, coords |-> <<432551, 769126>>],
    [key |-> <<"u0434", "u0435", "u043b", "u0438">>, coords |-> <<286139, 772090>>],
    [key |-> <<"u0432", "u0430", "u0448", "u0438", "u043d", "u0433", "u0442", "u043e", "u043d">>, coords |-> <<389072, -770369>>],
    [key |-> <<"u0445", "u0435", "u043b", "u044c", "u0441", "u0438", "u043d", "u043a", "u0438">>, coords |-> <<601695, 249354>>],
    [key |-> <<"u0431", "u043e", "u043d", "u043d">>, coords |-> <<507374, 70982>>],
    [key |-> <<"u0442", "u0430", "u0448", "u043a", "u0435", "u043d", "u0442">>, coords |-> <<412995, 692401>>],
    [key |-> <<"u043a", "u0430", "u0438", "u0440">>, coords |-> <<300444, 312357>>],
    [key |-> <<"u0430", "u0448", "u0445", "u0430", "u0431", "u0430", "u0434">>, coords |-> <<379601, 583261>>],
    [key |-> <<"u0430", "u0448", "u0433", "u0430", "u0431", "u0430", "u0434">>, coords |-> <<379601, 583261>>],
    [key |-> <<"u043e", "u0440", "u0434", "u0430", "u0431", "u0430", "u0441", "u044b">>, coords |-> <<424400, 693500>>],
    [key |-> <<"u0431", "u0430", "u043d", "u0433", "u043a", "u043e", "u043a">>, coords |-> <<137563, 1005018>>],
    [key |-> <<"u043c", "u0430", "u0434", "u0440", "u0438", "u0434">>, coords |-> <<404168, -37038>>],
    [key |-> <<"u0442", "u043e", "u043a", "u0438", "u043e">>, coords |-> <<356762, 1396503>>],
    [key |-> <<"u0442", "u0430", "u043b", "u043b", "u0438", "u043d">>, coords |-> <<594370, 247536>>],
    [key |-> <<"u0432", "u0438", "u043b", "u044c", "u043d", "u044e", "u0441">>, coords |-> <<546872, 252797>>],
    [key |-> <<"u043a", "u0438", "u0435", "u0432">>, coords |-> <<504501, 305234>>],
    [key |-> <<"u043f", "u0430", "u0440", "u0438", "u0436">>, coords |-> <<488566, 23522>>],
    [key |-> <<"u0431", "u0443", "u0434", "u0430", "u043f", "u0435", "u0448", "u0442">>, coords |-> <<474979, 190402>>],
    [key |-> <<"u043c", "u043e", "u0441", "u043a", "u0432", "u0430">>, coords |-> <<557558, 376173>>],
    [key |-> <<"u044d", "u0440", "-", "u0440", "u0438", "u044f", "u0434">>, coords |-> <<247136, 466753>>],
    [key |-> <<"u0434", "u0430", "u0448", "u0445", "u043e", "u0432", "u0443", "u0437">>, coords |-> <<418363, 599666>>],
    [key |-> <<"u043d", "u044c", "u044e", "-", "u0439", "u043e", "u0440", "u043a">>, coords |-> <<407128, -740060>>],
    [key |-> <<"u0442", "u0435", "u043b", "u044c", "-", "u0430", "u0432", "u0438", "u0432">>, coords |-> <<320853, 347818>>],
    [key |-> <<"u0438", "u0435", "u0440", "u0443", "u0441", "u0430", "u043b", "u0438", "u043c">>, coords |-> <<317683, 352137>>],
    [key |-> <<"u043f", "u0435", "u043a", "u0438", "u043d">>, coords |-> <<399042, 1164074>>],
    [key |-> <<"u043a", "u0430", "u0437", "u0430", "u043d", "u044c">>, coords |-> <<558304, 490661>>],
    [key |-> <<"u043c", "u0438", "u043d", "u0441", "u043a">>, coords |-> <<539045, 275615>>],
    [key |-> <<"u0442", "u0435", "u0433", "u0435", "u0440", "u0430", "u043d">>, coords |-> <<356892, 513890>>],
    [key |-> <<"u0431", "u0430", "u043a", "u0443">>, coords |-> <<404093, 498671>>],
    [key |-> <<"u0442", "u0431", "u0438", "u043b", "u0438", "u0441", "u0438">>, coords |-> <<417151, 448271>>],
    [key |-> <<"u0441", "u0438", "u043d", "u0433", "u0430", "u043f", "u0443", "u0440">>, coords |-> <<13521, 1038198>>],
    [key |-> <<"u043a", "u0443", "u0430", "u043b", "u0430", "-", "u043b", "u0443", "u043c", "u043f", "u0443", "u0440">>, coords |-> <<31390, 1016869>>],
    [key |-> <<"u0434", "u0430", "u0432", "u043e", "u0441">>, coords |-> <<468027, 98298>>],
    [key |-> <<"u0432", "u0430", "u0440", "u0448", "u0430", "u0432", "u0430">>, coords |-> <<522297, 210122>>],
    [key |-> <<"u043a", "u0443", "u0432", "u0435", "u0439", "u0442">>, coords |-> <<293759, 479774>>],
    [key |-> <<"u043c", "u0430", "u0441", "u043a", "u0430", "u0442">>, coords |-> <<235859, 584059>>],
    [key |-> <<"u043c", "u0430", "u043d", "u0430", "u043c", "u0430">>, coords |-> <<262285, 505860>>],
    [key |-> <<"u0442", "u0443", "u0440", "u043a", "u0435", "u0441", "u0442", "u0430", "u043d">>, coords |-> <<433025, 682570>>],
    [key |-> <<"u0434", "u043e", "u0445", "u0430">>, coords |-> <<252854, 515310>>],
    [key |-> <<"u0430", "u0431", "u0443", "-", "u0434", "u0430", "u0431", "u0438">>, coords |-> <<244539, 543773>>],
    [key |-> <<"u0430", "u0441", "u0442", "u0430", "u043d", "u0430">>, coords |-> <<511694, 714491>>],
    [key |-> <<"u0431", "u0443", "u0445", "u0430", "u0440", "u0435", "u0441", "u0442">>, coords |-> <<444268, 261025>>],
    [key |-> <<"u0440", "u0438", "u043c">>, coords |-> <<419028, 124964>>],
    [key |-> <<"u0432", "u0430", "u0442", "u0438", "u043a", "u0430", "u043d">>, coords |-> <<419029, 124534>>],
    [key |-> <<"u043c", "u043e", "u043a", "u0432", "u0430">>, coords |-> <<557558, 376173>>],
    [key |-> <<"u0431", "u0438", "u0448", "u043a", "u0435", "u043a">>, coords |-> <<428746, 745698>>],
    [key |-> <<"u0441", "u043e", "u0444", "u0438", "u044f">>, coords |-> <<426977, 233219>>],
    [key |-> <<"u0443", "u043b", "u0430", "u043d", "-", "u0431", "u0430", "u0442", "u043e", "u0440">>, coords |-> <<479181, 1069173>>],
    [key |-> <<"u0432", "u0435", "u043d", "u0430">>, coords |-> <<482082, 163738>>],
    [key |-> <<"u0434", "u0443", "u0448", "u0430", "u043d", "u0431", "u0435">>, coords |-> <<385598, 687870>>],
    [key |-> <<"u0431", "u0440", "u044e", "u0441", "u0441", "u0435", "u043b", "u044c">>, coords |-> <<508503, 43517>>],
    [key |-> <<"u0441", "u0442", "u0430", "u043c", "u0431", "u0443", "u043b">>, coords |-> <<410082, 289784>>],
    [key |-> <<"u0435", "u0440", "u0435", "u0432", "u0430", "u043d">>, coords |-> <<401872, 445152>>],
    [key |-> <<"u0430", "u0444", "u0438", "u043d", "u044b">>, coords |-> <<379838, 237275>>],
    [key |-> <<"u0437", "u0430", "u0433", "u0440", "u0435", "u0431">>, coords |-> <<458150, 159819>>],
    [key |-> <<"u043b", "u044e", "u0431", "u043b", "u044f", "u043d", "u0430">>, coords |-> <<460569, 145058>>],
    [key |-> <<"u0446", "u044e", "u0440", "u0438", "u0445">>, coords |-> <<473769, 85417>>],
    [key |-> <<"u043e", "u043c", "u0441", "u043a">>, coords |-> <<549885, 733242>>],
    [key |-> <<"u0430", "u043d", "u043a", "u0430", "u0440", "u0430">>, coords |-> <<399334, 328597>>],
    [key |-> <<"u0441", "u0430", "u043d", "u043a", "u0442", "-", "u043f", "u0435", "u0442", "u0435", "u0440", "u0431", "u0443", "u0440", "u0433">>, coords |-> <<599343, 303351>>],
    [key |-> <<"u043e", "u0442", "u0442", "u0430", "u0432", "u0430">>, coords |-> <<454215, -756972>>],
    [key |-> <<"u044f", "u043b", "u0442", "u0430">>, coords |-> <<444952, 341663>>],
    [key |-> <<"u043c", "u0430", "u043d", "u0438", "u043b", "u0430">>, coords |-> <<145995, 1209842>>],
    [key |-> <<"u0441", "u0435", "u0443", "u043b">>, coords |-> <<375665, 1269780>>],
    [key |-> <<"u0438", "u0441", "u043b", "u0430", "u043c", "u0430", "u0431", "u0430", "u0434">>, coords |-> <<336844, 730479>>],
    [key |-> <<"u0431", "u0435", "u0440", "u043b", "u0438", "u043d">>, coords |-> <<525200, 134050>>],
    [key |-> <<"u0443", "u0444", "u0430">>, coords |-> <<547388, 559721>>],
    [key |-> <<"u0441", "u0442", "u043e", "u043a", "u0433", "u043e", "u043b", "u044c", "u043c">>, coords |-> <<593293, 180686>>],
    [key |-> <<"u043a", "u0438", "u0448", "u0438", "u043d", "u0435", "u0432">>, coords |-> <<470105, 288638>>],
    [key |-> <<"u043d", "u043e", "u0432", "u043e", "-", "u043e", "u0433", "u0430", "u0440", "u0435", "u0432", "u043e">>, coords |-> <<557275, 372144>>],
    [key |-> <<"u0447", "u0435", "u043b", "u044f", "u0431", "u0438", "u043d", "u0441", "u043a">>, coords |-> <<551644, 614368>>],
    [key |-> <<"u0431", "u0430", "u0439", "u043a", "u043e", "u043d", "u0443", "u0440">>, coords |-> <<459646, 633052>>],
    [key |-> <<"u0441", "u043e", "u0447", "u0438">>, coords |-> <<436028, 397342>>],
    [key |-> <<"u0448", "u0430", "u043d", "u0445", "u0430", "u0439">>, coords |-> <<312304, 1214737>>],
    [key |-> <<"u0440", "u0438", "u0433", "u0430">>, coords |-> <<569496, 241052>>],
    [key |-> <<"u0443", "u0440", "u0430", "u043b", "u044c", "u0441", "u043a">>, coords |-> <<512333, 513667>>],
    [key |-> <<"u043b", "u043e", "u043d", "u0434", "u043e", "u043d">>, coords |-> <<515074, -1278>>],
    [key |-> <<"u0430", "u043c", "u043c", "u0430", "u043d">>, coords |-> <<319454, 359284>>],
    [key |-> <<"u0442", "u0443", "u0440", "u043a", "u043c", "u0435", "u043d", "u0431", "u0430", "u0448", "u0438">>, coords |-> <<400113, 529697>>],
    [key |-> <<"u0431", "u0440", "u0430", "u0437", "u0438", "u043b", "u0438", "u044f">>, coords |-> <<-158267, -479218>>],
    [key |-> <<"u0431", "u0440", "u0430", "u0442", "u0438", "u0441", "u043b", "u0430", "u0432", "u0430">>, coords |-> <<481486, 171077>>],
    [key |-> <<"u043f", "u0430", "u043b", "u044c", "u043c", "u0430", " ", "u0434", "u0435", " ", "u043c", "u0430", "u0439", "u043e", "u0440", "u043a", "u0430">>, coords |-> <<395696, 26502>>],
    [key |-> <<"u0430", "u043a", "u0442", "u043e", "u0431", "u0435">>, coords |-> <<502839, 571669>>],
    [key |-> <<"u0431", "u043e", "u0440", "u043e", "u0432", "u043e", "u0435">>, coords |-> <<530883, 703061>>]
  >>

\* .replace(/^\u0433\.\s*|^\u0433\s+/, ''): a leading U+0433 and "." with the
\* whitespace after it, or a leading U+0433 with at least one whitespace.
StripCityPrefix(s) ==
    IF Len(s) >= 2 /\ s[1] = "u0433" /\ s[2] = "." THEN trimStart(SubSeq(s, 3, Len(s)))
    ELSE IF Len(s) >= 2 /\ s[1] = "u0433" /\ IsSpace(s[2]) THEN trimStart(Tail(s))
    ELSE s

\* A cleaning that forgets to lowercase.
CleanLocationKeepsCase(location) == trim(StripCityPrefix(location))

CleanLocation(location) == trim(StripCityPrefix(toLowerCase(location)))

\* Positions of the table entries an input relates to.
ExactHits(clean) == {n \in 1..Len(COORDINATE_DB) : COORDINATE_DB[n].key = clean}

\* A search that only looks for keys inside the input.
SubstringHitsOfKeysOnly(clean) ==
    {n \in 1..Len(COORDINATE_DB) : includes(clean, COORDINATE_DB[n].key)}

SubstringHits(clean) ==
    {n \in 1..Len(COORDINATE_DB) :
        includes(clean, COORDINATE_DB[n].key) \/ includes(COORDINATE_DB[n].key, clean)}

\* COORDINATE_DB is an object literal, so COORDINATE_DB[clean] also finds
\* the properties of Object.prototype; the lowercase names among them are
\* "constructor" and "__proto__".  Their values are a function and an
\* object: INHERITED, a truthy value that is no pair and has no element 0
\* or 1.
InheritedNames ==
    { <<"c", "o", "n", "s", "t", "r", "u", "c", "t", "o", "r">>,
      <<"_", "_", "p", "r", "o", "t", "o", "_", "_">> }

INHERITED == <<"inherited">>

\* The coordinate pair, or <<>> for null.
getCoordinates(location) ==
    IF location = <<>> THEN <<>>
    ELSE The({ IF ExactHits(clean) # {} THEN COORDINATE_DB[Min(ExactHits(clean))].coords
               ELSE IF clean \in InheritedNames THEN INHERITED
               ELSE IF SubstringHits(clean) # {}
                    THEN COORDINATE_DB[Min(SubstringHits(clean))].coords
                    ELSE <<>> : clean \in {CleanLocation(location)} })

(* ---------------------------------------------------------------------- *)
(* linkPhotosToCsv: the alias lists and literals of its body              *)
(* ---------------------------------------------------------------------- *)
ID_KEYS ==
    <<<<"u043a", "u043e", "u0434">>, <<"c", "o", "d", "e">>, <<"i", "d">>>>

DESCRIPTION_KEYS ==
    <<<<"u043d", "u0430", "u0438", "u043c", "u0435", "u043d", "u043e", "u0432", "u0430",
    "u043d", "u0438", "u0435">>, <<"n", "a", "m", "e">>, <<"d", "e", "s", "c", "r", "i", "p",
    "t", "i", "o", "n">>>>

TYPE_KEYS ==
    <<<<"u0442", "u0438", "u043f">>, <<"t", "y", "p", "e">>>>

LOCATION_KEYS ==
    <<<<"u043b", "u043e", "u043a", "u0430", "u0446", "u0438", "u044f">>, <<"l", "o", "c", "a",
    "t", "i", "o", "n">>, <<"p", "l", "a", "c", "e">>>>

DATE_KEYS ==
    <<<<"u0434", "u0430", "u0442", "u0430">>, <<"d", "a", "t", "e">>, <<"y", "e", "a", "r">>>>

QUANTITY_KEYS ==
    <<<<"u043a", "u043e", "u043b", "u0438", "u0447", "u0435", "u0441", "u0442", "u0432",
    "u043e">>, <<"q", "t", "y">>, <<"c", "o", "u", "n", "t">>>>

NOTE_KEYS ==
    <<<<"u043f", "u0440", "u0438", "u043c", "u0435", "u0447", "u0430", "u043d", "u0438",
    "u0435">>, <<"n", "o", "t", "e">>, <<"c", "o", "m", "m", "e", "n", "t", "s">>>>

NO_TITLE ==
    <<"u0411", "u0435", "u0437", " ", "u043d", "u0430", "u0438", "u043c", "u0435", "u043d",
    "u043e", "u0432", "u0430", "u043d", "u0438", "u044f">>

REASON_PREFIX ==
    <<"u041a", "u043e", "u0434", " ", "\"">>

REASON_SUFFIX ==
    <<"\"", " ", "u043d", "u0435", " ", "u043d", "u0430", "u0439", "u0434", "u0435", "u043d",
    " ", "u0432", " ", "C", "S", "V", ".">>

OK == <<"O", "K">>

(* ---------------------------------------------------------------------- *)
(* Bounds and inputs                                                      *)
(* ---------------------------------------------------------------------- *)
MaxFiles == 2
MaxRows == 2

Prop(key, val) == [k |-> key, v |-> val]

\* {Code: "a", Name: "n", Type: "t", Location: "<U+0433>. <U+0410>lmaty" in
\* Cyrillic, Date: "d", Qty: "1", Note: "x"}
RowFull ==
    << Prop(<<"C", "o", "d", "e">>, <<"a">>),
       Prop(<<"N", "a", "m", "e">>, <<"n">>),
       Prop(<<"T", "y", "p", "e">>, <<"t">>),
       Prop(<<"L", "o", "c", "a", "t", "i", "o", "n">>,
            <<"u0433", ".", " ", "u0410", "u043b", "u043c", "u0430", "u0442", "u044b">>),
       Prop(<<"D", "a", "t", "e">>, <<"d">>),
       Prop(<<"Q", "t", "y">>, <<"1">>),
       Prop(<<"N", "o", "t", "e">>, <<"x">>) >>

\* {ID: "A ", Type: "t", Date: "t"}: the same key as RowFull, no description
RowUpperId ==
    << Prop(<<"I", "D">>, <<"A", " ">>),
       Prop(<<"T", "y", "p", "e">>, <<"t">>),
       Prop(<<"D", "a", "t", "e">>, <<"t">>) >>

\* {Code: " ", ID: "b", Name: "n"}
RowBlankCode ==
    << Prop(<<"C", "o", "d", "e">>, <<" ">>),
       Prop(<<"I", "D">>, <<"b">>),
       Prop(<<"N", "a", "m", "e">>, <<"n">>) >>

\* {code: "", " Id ": "B", place: "x"}
RowEmptyCode ==
    << Prop(<<"c", "o", "d", "e">>, <<>>),
       Prop(<<" ", "I", "d", " ">>, <<"B">>),
       Prop(<<"p", "l", "a", "c", "e">>, <<"x">>) >>

RowPool == {RowFull, RowUpperId, RowBlankCode, RowEmptyCode}

\* An item of the files argument: a File (name, size), or something that is
\* not an instance of File.
FileItem(name, size) == [isFile |-> TRUE, name |-> name, size |-> size]
NonFileItem(name, size) == [isFile |-> FALSE, name |-> name, size |-> size]

FilePool ==
    { FileItem(<<"a", ".", "j", "p", "g">>, 10),
      FileItem(<<"A", " ", "(", "1", ")", ".", "T", "I", "F">>, 20),
      FileItem(<<"b", ".", "t", "i", "f", "f">>, 30),
      FileItem(<<".", "p", "n", "g">>, 40),
      NonFileItem(<<"a", ".", "j", "p", "g">>, 10) }

SeqsUpTo(S, n) == UNION {[1..m -> S] : m \in 0..n}

(* ---------------------------------------------------------------------- *)
(* State                                                                  *)
(* ---------------------------------------------------------------------- *)
VARIABLES
    files,            \* linkPhotosToCsv: the files argument
    csvData,          \* linkPhotosToCsv: the csvData argument
    pc,               \* where the call is: start, loop, await, done
    csvMap,           \* Map from key to row
    idx,              \* position of the for..of loop in files
    matchedCount,
    processedPhotos,
    cur,              \* the locals of the iterations suspended at the await
    previewLog,       \* how preview generation ended, per processed file
    result            \* the value the call resolved to

linkVars == <<files, csvData, pc, csvMap, idx, matchedCount, processedPhotos, cur,
              previewLog, result>>

VARIABLES
    csvText,          \* parseCSV: the text argument
    csvTable,         \* the table csvText was written from, when it was
    csvPc,            \* call, done
    csvRows,          \* the records the scanner left in rows
    csvOut            \* the CsvData[] the call returned

csvVars == <<csvText, csvTable, csvPc, csvRows, csvOut>>

VARIABLES
    gvRow,            \* getValue: the row argument
    gvKeys,           \* getValue: the possibleKeys argument
    gvPc,             \* call, done
    gvOut             \* the string the call returned

gvVars == <<gvRow, gvKeys, gvPc, gvOut>>

VARIABLES
    nfName,           \* normalizeFilename: the filename argument
    nfPc,             \* call, done
    nfOut             \* the string the call returned

nfVars == <<nfName, nfPc, nfOut>>

VARIABLES
    gcLocation,       \* getCoordinates: the location argument
    gcPc,             \* call, done
    gcOut             \* the pair the call returned, <<>> for null

gcVars == <<gcLocation, gcPc, gcOut>>

VARIABLES
    tfEnv,            \* convertTiffToPreview: what the browser does in this call
    tfPc,             \* reading, settled
    tfEvent,          \* the FileReader event that was delivered, if any
    tfResolved        \* the arguments of the calls of resolve, in order

tfVars == <<tfEnv, tfPc, tfEvent, tfResolved>>

VARIABLES
    newPhotos,        \* handlePublish: the newPhotos argument
    pubPc,            \* start, loop, original, preview, metadata, caught, done, failed
    pubIdx,           \* position of the for..of loop in newPhotos
    previewFile,      \* the File made from the data URL, <<>> for null
    publicPreviewUrl, \* the public URL of the stored preview, <<>> for null
    storage,          \* the bucket 'photos': object name -> object
    uploads,          \* the upload calls that settled, in order
    loading,          \* App state
    view              \* App state

pubVars == <<newPhotos, pubPc, pubIdx, previewFile, publicPreviewUrl, storage, uploads,
             loading, view>>

VARIABLES
    viewMode,         \* Gallery state: grid, timeline, map
    photos,           \* Gallery prop
    photosRef,        \* the identity of the array in photos
    windowL,          \* typeof window.L !== 'undefined'
    isMapLoading,     \* Gallery state
    mapInstance,      \* mapInstanceRef.current: <<>> for null, else <<markers>>
    checkInterval,    \* the polling interval of the effect is running
    effectDeps,       \* [viewMode, photos] of the last run of the effect
    pendingRender,    \* a state update waits for its render
    changes           \* how often the view mode or the photo list was set

galVars == <<viewMode, photos, photosRef, windowL, isMapLoading, mapInstance, checkInterval,
             effectDeps, pendingRender, changes>>

vars == <<linkVars, csvVars, gvVars, nfVars, gcVars, tfVars, pubVars, galVars>>

\* What each operation leaves alone.
notLinkVars == <<csvVars, gvVars, nfVars, gcVars, tfVars, pubVars, galVars>>
notCsvVars == <<linkVars, gvVars, nfVars, gcVars, tfVars, pubVars, galVars>>
notGvVars == <<linkVars, csvVars, nfVars, gcVars, tfVars, pubVars, galVars>>
notNfVars == <<linkVars, csvVars, gvVars, gcVars, tfVars, pubVars, galVars>>
notGcVars == <<linkVars, csvVars, gvVars, nfVars, tfVars, pubVars, galVars>>
notTfVars == <<linkVars, csvVars, gvVars, nfVars, gcVars, pubVars, galVars>>
notPubVars == <<linkVars, csvVars, gvVars, nfVars, gcVars, tfVars, galVars>>
notGalVars == <<linkVars, csvVars, gvVars, nfVars, gcVars, tfVars, pubVars>>

\* No call of the operation in this behaviour.
LinkIdle ==
    /\ files = <<>>
    /\ csvData = <<>>
    /\ pc = "idle"
    /\ csvMap = <<>>
    /\ idx = 1
    /\ matchedCount = 0
    /\ processedPhotos = <<>>
    /\ cur = <<>>
    /\ previewLog = <<>>
    /\ result = [photos |-> <<>>, stats |-> [total |-> 0, matched |-> 0, unmatched |-> 0]]

CsvIdle ==
    /\ csvText = <<>>
    /\ csvTable = <<>>
    /\ csvPc = "idle"
    /\ csvRows = <<>>
    /\ csvOut = <<>>

GvIdle ==
    /\ gvRow = <<>>
    /\ gvKeys = <<>>
    /\ gvPc = "idle"
    /\ gvOut = <<>>

NfIdle ==
    /\ nfName = <<>>
    /\ nfPc = "idle"
    /\ nfOut = <<>>

GcIdle ==
    /\ gcLocation = <<>>
    /\ gcPc = "idle"
    /\ gcOut = <<>>

TfIdle ==
    /\ tfEnv = <<>>
    /\ tfPc = "idle"
    /\ tfEvent = "none"
    /\ tfResolved = <<>>

PubIdle ==
    /\ newPhotos = <<>>
    /\ pubPc = "idle"
    /\ pubIdx = 1
    /\ previewFile = <<>>
    /\ publicPreviewUrl = <<>>
    /\ storage = <<>>
    /\ uploads = <<>>
    /\ loading = FALSE
    /\ view = "gallery"

GalIdle ==
    /\ viewMode = "grid"
    /\ photos = <<>>
    /\ photosRef = 0
    /\ windowL = FALSE
    /\ isMapLoading = FALSE
    /\ mapInstance = <<>>
    /\ checkInterval = FALSE
    /\ effectDeps = <<"grid", 0>>
    /\ pendingRender = FALSE
    /\ changes = 0

\* No publishing and no Gallery in this behaviour.
AppIdle == PubIdle /\ GalIdle

\* No call of the single functions in this behaviour.
FunctionsIdle == NfIdle /\ GcIdle /\ TfIdle

(* ---------------------------------------------------------------------- *)
(* linkPhotosToCsv                                                        *)
(* ---------------------------------------------------------------------- *)
\* const mapKey = rawKey.toLowerCase().trim()
MapKey(rawKey) == trim(toLowerCase(rawKey))

\* A set that keeps the row a key already has.
MapSetKeepsFirst(map, key, row) ==
    [x \in (DOMAIN map) \cup {key} |-> IF x \in DOMAIN map THEN map[x] ELSE row]

\* csvMap.set(mapKey, row)
MapSet(map, key, row) ==
    [x \in (DOMAIN map) \cup {key} |-> IF x = key THEN row ELSE map[x]]

\* An index that takes every row, whatever its identifier.
HasKeyAlways(rawKey) == TRUE

\* if (rawKey)
HasKey(rawKey) == rawKey # <<>>

\* csvData.forEach(row => ...) from row n on
RECURSIVE IndexRowsFrom(_, _, _)
IndexRowsFrom(rows, n, map) ==
    IF n > Len(rows)
    THEN map
    ELSE The({ IndexRowsFrom(rows, n + 1, indexed) :
                 indexed \in { IF HasKey(rawKey)
                                THEN MapSet(map, MapKey(rawKey), rows[n])
                                ELSE map : rawKey \in {getValue(rows[n], ID_KEYS)} } })

BuildCsvMap(rows) == IndexRowsFrom(rows, 1, <<>>)

\* A lookup that forgets to lowercase the normalized name.
LookupKeyKeepsCase(normalizedName) == normalizedName

\* const lookupKey = normalizedName.toLowerCase()
LookupKey(normalizedName) == toLowerCase(normalizedName)

\* file.name.split('.').pop()?.toLowerCase()
Extension(name) == toLowerCase(SubSeq(name, LastIndexOf(name, ".") + 1, Len(name)))

IsTiff(name) == Extension(name) \in {<<"t", "i", "f">>, <<"t", "i", "f", "f">>}

\* A matchedId that takes the lowercased lookup key, not the normalized name.
MatchedIdLowercased(matched, normalizedName) ==
    IF matched THEN toLowerCase(normalizedName) ELSE NULL

\* matchedId: match ? normalizedName : null
MatchedId(matched, normalizedName) == IF matched THEN normalizedName ELSE NULL

\* A description that falls back to the placeholder without asking for a match.
DescriptionAlwaysDefaulted(matched, description) ==
    IF description # <<>> THEN description ELSE NO_TITLE

\* A description that is never replaced by the placeholder.
DescriptionNeverDefaulted(matched, description) == description

\* description || (match ? <placeholder> : '')
Description(matched, description) ==
    IF description # <<>> THEN description
    ELSE IF matched THEN NO_TITLE ELSE <<>>

\* Tags as a set written in order: a value that is already there is not
\* pushed again.
TagsDeduplicated(type, location, date) ==
    (IF type # <<>> THEN <<type>> ELSE <<>>)
    \o (IF location # <<>> /\ location # type THEN <<location>> ELSE <<>>)
    \o (IF date # <<>> /\ date # type /\ date # location THEN <<date>> ELSE <<>>)

\* The tags array after the three conditional pushes.
Tags(type, location, date) ==
    (IF type # <<>> THEN <<type>> ELSE <<>>)
    \o (IF location # <<>> THEN <<location>> ELSE <<>>)
    \o (IF date # <<>> THEN <<date>> ELSE <<>>)

\* const lat = coords ? coords[0] : undefined
Lat(coords) == IF coords # <<>> /\ coords # INHERITED THEN <<coords[1]>> ELSE <<>>

\* A longitude that is 0 where there are no coordinates.
LngDefaultsToZero(coords) == IF coords # <<>> THEN <<coords[2]>> ELSE <<0>>

\* const lng = coords ? coords[1] : undefined
Lng(coords) == IF coords # <<>> /\ coords # INHERITED THEN <<coords[2]>> ELSE <<>>

\* The locals of one iteration when it reaches the preview step, as the
\* fields of the entry they go into; previewUrl is still ''.  file is the
\* File object, named by its position in files.
Locals(file, position, map) ==
    The({
    The({
    LET matched == lookupKey \in DOMAIN map
        Field(keys) == IF matched THEN getValue(map[lookupKey], keys) ELSE <<>>
    IN  The({
        The({
        [ file |-> position,
          previewUrl |-> "",
          originalName |-> file.name,
          fileSize |-> file.size,
          matchedId |-> MatchedId(matched, normalizedName),
          description |-> Description(matched, Field(DESCRIPTION_KEYS)),
          type |-> type,
          location |-> location,
          date |-> date,
          quantity |-> Field(QUANTITY_KEYS),
          note |-> Field(NOTE_KEYS),
          lat |-> Lat(coords),
          lng |-> Lng(coords),
          tags |-> Tags(type, location, date),
          status |-> IF matched THEN "matched" ELSE "unmatched",
          matchReason |-> IF matched THEN OK
                          ELSE REASON_PREFIX \o normalizedName \o REASON_SUFFIX ]
        : coords \in {getCoordinates(location)} })
        : type \in {Field(TYPE_KEYS)}, location \in {Field(LOCATION_KEYS)},
          date \in {Field(DATE_KEYS)} })
    : lookupKey \in {LookupKey(normalizedName)} })
    : normalizedName \in {normalizeFilename(file.name)} })

\* A counter that counts every processed file.
CountMatchEveryFile(count, locals) == count + 1

\* if (match) matchedCount++
CountMatch(count, locals) == IF locals.status = "matched" THEN count + 1 ELSE count

\* How the preview step can end.  A file that is not a TIFF gets
\* URL.createObjectURL(file), which returns a URL or throws; a TIFF awaits
\* convertTiffToPreview, whose promise resolves to a data URL or to '', or
\* rejects.
PlainOutcomes == {"url", "throw"}
TiffOutcomes == {"url", "empty", "reject"}

\* previewUrl after the try/catch.
PreviewUrl(tiff, outcome) ==
    IF outcome = "url" THEN (IF tiff THEN "data:image/jpeg" ELSE "blob:url")
    ELSE ""

\* The object pushed to processedPhotos.  generateId() gives a fresh string;
\* it is written as the ordinal of the call.
Entry(locals, id, previewUrl) == [id |-> id] @@ [locals EXCEPT !.previewUrl = previewUrl]

\* stats of the returned object
Stats(fileList, count) ==
    [total |-> Len(fileList), matched |-> count, unmatched |-> Len(fileList) - count]

NoResult == [photos |-> <<>>, stats |-> [total |-> 0, matched |-> 0, unmatched |-> 0]]

Init ==
    /\ files \in SeqsUpTo(FilePool, MaxFiles)
    /\ csvData \in SeqsUpTo(RowPool, MaxRows)
    /\ pc = "start"
    /\ csvMap = <<>>
    /\ idx = 1
    /\ matchedCount = 0
    /\ processedPhotos = <<>>
    /\ cur = <<>>
    /\ previewLog = <<>>
    /\ result = NoResult
    /\ CsvIdle
    /\ GvIdle
    /\ FunctionsIdle
    /\ AppIdle

\* The row index is built and the loop's variables are set.
BuildIndex ==
    /\ pc = "start"
    /\ csvMap' = BuildCsvMap(csvData)
    /\ pc' = "loop"
    /\ UNCHANGED <<files, csvData, idx, matchedCount, processedPhotos, cur, previewLog,
                   result>>
    /\ UNCHANGED notLinkVars

\* An item that is not a File ends the loop (break for continue).
SkipNonFileEndsLoop ==
    /\ pc = "loop"
    /\ idx <= Len(files)
    /\ ~files[idx].isFile
    /\ idx' = Len(files) + 1
    /\ UNCHANGED <<files, csvData, pc, csvMap, matchedCount, processedPhotos, cur,
                   previewLog, result>>
    /\ UNCHANGED notLinkVars

\* An item that is not a File: warn and continue.
SkipNonFile ==
    /\ pc = "loop"
    /\ idx <= Len(files)
    /\ ~files[idx].isFile
    /\ idx' = idx + 1
    /\ UNCHANGED <<files, csvData, pc, csvMap, matchedCount, processedPhotos, cur,
                   previewLog, result>>
    /\ UNCHANGED notLinkVars

\* A catch that moves on to the next file without pushing an entry.
ProcessPlainFileDropsOnThrow ==
    /\ pc = "loop"
    /\ idx <= Len(files)
    /\ files[idx].isFile
    /\ ~IsTiff(files[idx].name)
    /\ \E outcome \in PlainOutcomes :
          LET locals == Locals(files[idx], idx, csvMap)
          IN  /\ matchedCount' = CountMatch(matchedCount, locals)
              /\ IF outcome = "throw"
                 THEN UNCHANGED <<processedPhotos, previewLog>>
                 ELSE /\ processedPhotos' =
                            Append(processedPhotos,
                                   Entry(locals, Len(processedPhotos) + 1,
                                         PreviewUrl(FALSE, outcome)))
                      /\ previewLog' = Append(previewLog, outcome)
    /\ idx' = idx + 1
    /\ UNCHANGED <<files, csvData, pc, csvMap, cur, result>>
    /\ UNCHANGED notLinkVars

\* A File that is not a TIFF: the iteration runs to its push without
\* suspending.
ProcessPlainFile ==
    /\ pc = "loop"
    /\ idx <= Len(files)
    /\ files[idx].isFile
    /\ ~IsTiff(files[idx].name)
    /\ \E outcome \in PlainOutcomes :
          LET locals == Locals(files[idx], idx, csvMap)
          IN  /\ matchedCount' = CountMatch(matchedCount, locals)
              /\ processedPhotos' =
                    Append(processedPhotos,
                           Entry(locals, Len(processedPhotos) + 1,
                                 PreviewUrl(FALSE, outcome)))
              /\ previewLog' = Append(previewLog, outcome)
    /\ idx' = idx + 1
    /\ UNCHANGED <<files, csvData, pc, csvMap, cur, result>>
    /\ UNCHANGED notLinkVars

\* A loop that starts the conversion and goes on to the next file without
\* waiting for it.
StartTiffPreviewWithoutAwait ==
    /\ pc = "loop"
    /\ idx <= Len(files)
    /\ files[idx].isFile
    /\ IsTiff(files[idx].name)
    /\ LET locals == Locals(files[idx], idx, csvMap)
       IN  /\ matchedCount' = CountMatch(matchedCount, locals)
           /\ cur' = Append(cur, locals)
    /\ idx' = idx + 1
    /\ UNCHANGED <<files, csvData, pc, csvMap, processedPhotos, previewLog, result>>
    /\ UNCHANGED notLinkVars

\* A TIFF: the iteration runs to await convertTiffToPreview(file) and is
\* suspended there, its conversion pending.
StartTiffPreview ==
    /\ pc = "loop"
    /\ idx <= Len(files)
    /\ files[idx].isFile
    /\ IsTiff(files[idx].name)
    /\ LET locals == Locals(files[idx], idx, csvMap)
       IN  /\ matchedCount' = CountMatch(matchedCount, locals)
           /\ cur' = Append(cur, locals)
    /\ pc' = "await"
    /\ UNCHANGED <<files, csvData, csvMap, idx, processedPhotos, previewLog, result>>
    /\ UNCHANGED notLinkVars

\* An await without the try/catch: a rejected conversion ends the call,
\* which rejects in its turn.
FinishTiffPreviewRethrows ==
    /\ pc = "await"
    /\ \E outcome \in TiffOutcomes :
          IF outcome = "reject"
          THEN /\ pc' = "threw"
               /\ UNCHANGED <<processedPhotos, previewLog, cur, idx>>
          ELSE /\ processedPhotos' =
                     Append(processedPhotos,
                            Entry(cur[1], Len(processedPhotos) + 1,
                                  PreviewUrl(TRUE, outcome)))
               /\ previewLog' = Append(previewLog, outcome)
               /\ cur' = Tail(cur)
               /\ idx' = idx + 1
               /\ pc' = "loop"
    /\ UNCHANGED <<files, csvData, csvMap, matchedCount, result>>
    /\ UNCHANGED notLinkVars

\* The awaited promise settles; the iteration resumes and pushes its entry.
FinishTiffPreview ==
    /\ pc = "await"
    /\ \E outcome \in TiffOutcomes :
          /\ processedPhotos' =
                Append(processedPhotos,
                       Entry(cur[1], Len(processedPhotos) + 1, PreviewUrl(TRUE, outcome)))
          /\ previewLog' = Append(previewLog, outcome)
    /\ cur' = Tail(cur)
    /\ idx' = idx + 1
    /\ pc' = "loop"
    /\ UNCHANGED <<files, csvData, csvMap, matchedCount, result>>
    /\ UNCHANGED notLinkVars

\* The loop is over: return { photos, stats }.
ReturnResult ==
    /\ pc = "loop"
    /\ idx > Len(files)
    /\ result' = [photos |-> processedPhotos, stats |-> Stats(files, matchedCount)]
    /\ pc' = "done"
    /\ UNCHANGED <<files, csvData, csvMap, idx, matchedCount, processedPhotos, cur,
                   previewLog>>
    /\ UNCHANGED notLinkVars

Next ==
    \/ BuildIndex
    \/ SkipNonFile
    \/ ProcessPlainFile
    \/ StartTiffPreview
    \/ FinishTiffPreview
    \/ ReturnResult

Spec == Init /\ [][Next]_vars

\* The call runs on whenever it has a step to take, and every preview
\* conversion it awaits settles.
Fairness == WF_vars(Next) /\ WF_vars(FinishTiffPreview)

SpecFair == Init /\ [][Next]_vars /\ Fairness

(* ---------------------------------------------------------------------- *)
(* parseCSV as an operation: one call on one text                         *)
(* ---------------------------------------------------------------------- *)
MaxTextLen == 5

\* An ordinary character, the separators, the quote, both line ends, a
\* blank and the byte-order mark.
CsvAlphabet == {"a", ",", "\"", "\n", "\r", " ", BOM}

InitCsv ==
    /\ csvText \in SeqsUpTo(CsvAlphabet, MaxTextLen)
    /\ csvTable = <<>>
    /\ csvPc = "call"
    /\ csvRows = <<>>
    /\ csvOut = <<>>
    /\ LinkIdle
    /\ GvIdle
    /\ FunctionsIdle
    /\ AppIdle

\* The call runs to its return: the scan, the flush, the header row and
\* the data rows.
ParseText ==
    /\ csvPc = "call"
    /\ csvRows' = ScanRecords(csvText)
    /\ csvOut' = parseCSV(csvText)
    /\ csvPc' = "done"
    /\ UNCHANGED <<csvText, csvTable>>
    /\ UNCHANGED notCsvVars

NextCsv == ParseText

SpecCsv == InitCsv /\ [][NextCsv]_vars

(* ---------------------------------------------------------------------- *)
(* A generated CSV: a table of field values written with every field       *)
(* quoted and every embedded quote doubled, then parsed.                   *)
(* ---------------------------------------------------------------------- *)
MaxCols == 2
MaxCells == 4

HeaderPool == {<<>>, <<"h">>, <<" ", "h">>, <<"k", ",">>}

FieldPool == {<<>>, <<"a">>, <<",">>, <<"\"">>, <<"a", "\"", ",", "\"", "\"", " ">>}

\* A table: a header record and one or more data records of the same width.
TablesOf(c, r) ==
    { [header |-> h, data |-> d] :
        h \in [1..c -> HeaderPool], d \in [1..r -> [1..c -> FieldPool]] }

Tables ==
    UNION { UNION { TablesOf(c, r) : r \in {n \in 1..MaxCells : c * n <= MaxCells} } :
            c \in 1..MaxCols }

RECURSIVE QuoteField(_)
QuoteField(field) ==
    IF field = <<>> THEN <<>>
    ELSE (IF Head(field) = "\"" THEN <<"\"", "\"">> ELSE <<Head(field)>>)
         \o QuoteField(Tail(field))

RECURSIVE WriteRecord(_)
WriteRecord(record) ==
    IF record = <<>> THEN <<>>
    ELSE <<"\"">> \o QuoteField(Head(record)) \o <<"\"">>
         \o (IF Len(record) > 1 THEN <<",">> ELSE <<>>)
         \o WriteRecord(Tail(record))

RECURSIVE WriteRecords(_)
WriteRecords(records) ==
    IF records = <<>> THEN <<>>
    ELSE WriteRecord(Head(records))
         \o (IF Len(records) > 1 THEN <<"\n">> ELSE <<>>)
         \o WriteRecords(Tail(records))

WriteCsv(table) == WriteRecords(<<table.header>> \o table.data)

InitRoundTrip ==
    /\ csvTable \in Tables
    /\ csvText \in {WriteCsv(csvTable), WriteCsv(csvTable) \o <<"\n">>}
    /\ csvPc = "call"
    /\ csvRows = <<>>
    /\ csvOut = <<>>
    /\ LinkIdle
    /\ GvIdle
    /\ FunctionsIdle
    /\ AppIdle

SpecRoundTrip == InitRoundTrip /\ [][NextCsv]_vars

(* ---------------------------------------------------------------------- *)
(* getValue as an operation: one call on one row and one alias list       *)
(* ---------------------------------------------------------------------- *)
MaxProps == 2
MaxAliases == 3

\* "Code", "ID", "code" and " id ": two spellings for each of two aliases
KeyPool == {<<"C", "o", "d", "e">>, <<"I", "D">>, <<"c", "o", "d", "e">>, <<" ", "i", "d", " ">>}

\* "", "  ", "X1" and " y "
ValuePool == {<<>>, <<" ", " ">>, <<"X", "1">>, <<" ", "y", " ">>}

\* Rows of at most MaxProps properties with distinct keys.
RowsOver(keys, values, n) ==
    { r \in SeqsUpTo([k : keys, v : values], n) :
        \A a, b \in 1..Len(r) : a # b => r[a].k # r[b].k }

AliasPool == {ID_KEYS[n] : n \in 1..Len(ID_KEYS)}

InitGetValue ==
    /\ gvRow \in RowsOver(KeyPool, ValuePool, MaxProps)
    /\ gvKeys \in SeqsUpTo(AliasPool, MaxAliases)
    /\ gvPc = "call"
    /\ gvOut = <<>>
    /\ LinkIdle
    /\ CsvIdle
    /\ FunctionsIdle
    /\ AppIdle

GetValueCall ==
    /\ gvPc = "call"
    /\ gvOut' = getValue(gvRow, gvKeys)
    /\ gvPc' = "done"
    /\ UNCHANGED <<gvRow, gvKeys>>
    /\ UNCHANGED notGvVars

NextGetValue == GetValueCall

SpecGetValue == InitGetValue /\ [][NextGetValue]_vars

(* ---------------------------------------------------------------------- *)
(* normalizeFilename as an operation: one call on one file name           *)
(* ---------------------------------------------------------------------- *)
MaxNameLen == 4
MaxBaseLen == 2

\* Letters of both cases, a blank, the dot, the parentheses, a digit and
\* the slash.
NameAlphabet == {"a", "A", " ", ".", "(", ")", "1", "/"}

\* Base names without ".", "(" or surrounding whitespace.
BasePool ==
    { b \in SeqsUpTo(NameAlphabet \ {".", "("}, MaxBaseLen) :
        b = <<>> \/ (b[1] # " " /\ b[Len(b)] # " ") }

DigitsPool == {<<"1">>, <<"0", "1", "2">>}

\* Extensions: one or more characters, none of them "." or "/".
ExtPool == {<<"j", "p", "g">>, <<"T", "I", "F">>, <<"g", " ">>, <<")">>, <<"(", "1", ")">>}

\* base + " (" + digits + ")." + ext
DuplicateName(base, digits, ext) == base \o <<" ", "(">> \o digits \o <<")", ".">> \o ext

DuplicateNames ==
    {DuplicateName(b, d, e) : b \in BasePool, d \in DigitsPool, e \in ExtPool}

InitNormalize ==
    /\ nfName \in SeqsUpTo(NameAlphabet, MaxNameLen) \cup DuplicateNames
    /\ nfPc = "call"
    /\ nfOut = <<>>
    /\ LinkIdle
    /\ CsvIdle
    /\ GvIdle
    /\ GcIdle
    /\ TfIdle
    /\ AppIdle

NormalizeCall ==
    /\ nfPc = "call"
    /\ nfOut' = normalizeFilename(nfName)
    /\ nfPc' = "done"
    /\ UNCHANGED nfName
    /\ UNCHANGED notNfVars

NextNormalize == NormalizeCall

SpecNormalize == InitNormalize /\ [][NextNormalize]_vars

(* ---------------------------------------------------------------------- *)
(* getCoordinates as an operation: one call on one location               *)
(* ---------------------------------------------------------------------- *)
\* The capital of a letter, for writing a table key in another letter case.
UpperOf ==
    [c \in {LowerChars[n] : n \in 1..Len(LowerChars)} |->
        UpperChars[CHOOSE n \in 1..Len(LowerChars) : LowerChars[n] = c]]

UpperChar(c) == IF c \in DOMAIN UpperOf THEN UpperOf[c] ELSE c

Capitals(s) == [n \in 1..Len(s) |-> UpperChar(s[n])]

Capitalised(s) == [n \in 1..Len(s) |-> IF n = 1 THEN UpperChar(s[n]) ELSE s[n]]

\* The "city of" abbreviation in front of a name: with a dot and a blank,
\* with a dot, with a blank.
CityPrefixes == {<<"u0433", ".", " ">>, <<"u0433", ".">>, <<"u0433", " ">>}

TableKeys == {COORDINATE_DB[n].key : n \in 1..Len(COORDINATE_DB)}

\* Every key as it is, in capitals, capitalised, and behind each prefix.
KeyLocations ==
    UNION { {k, Capitals(k), Capitalised(k)} \cup {p \o k : p \in CityPrefixes} :
            k \in TableKeys }

\* The empty string, the bare prefixes in both cases, blanks, a lone letter
\* of some key, a name no key is related to, a key inside a longer text,
\* a part of one key, a part of several keys and a name that
\* Object.prototype has.
OtherLocations ==
    { <<>>,
      <<"u0433", ".">>, <<"u0433", " ">>, <<"u0433", ".", " ", " ">>, <<"u0413", ".">>,
      <<" ", " ">>,
      <<"u0433">>,
      <<"q", "q">>,
      <<"u0433", ".", " ", "q", "q">>,
      <<"u0433", ".", "u0420", "u0438", "u043c", ",", " ", "q">>,
      <<"u0430", "u0448", "u0445">>,
      <<"u0430", "u043d">>,
      <<"C", "o", "n", "s", "t", "r", "u", "c", "t", "o", "r">>,
      <<" ", "u0423", "u0444", "u0430", " ">> }

InitCoordinates ==
    /\ gcLocation \in KeyLocations \cup OtherLocations
    /\ gcPc = "call"
    /\ gcOut = <<>>
    /\ LinkIdle
    /\ CsvIdle
    /\ GvIdle
    /\ NfIdle
    /\ TfIdle
    /\ AppIdle

CoordinatesCall ==
    /\ gcPc = "call"
    /\ gcOut' = getCoordinates(gcLocation)
    /\ gcPc' = "done"
    /\ UNCHANGED gcLocation
    /\ UNCHANGED notGcVars

NextCoordinates == CoordinatesCall

SpecCoordinates == InitCoordinates /\ [][NextCoordinates]_vars

(* ---------------------------------------------------------------------- *)
(* convertTiffToPreview: the promise, the FileReader and its two handlers  *)
(* ---------------------------------------------------------------------- *)
MaxFrames == 2

\* The calls of the load handler that can throw, in the order it makes
\* them.
DecodeSteps ==
    <<"decode", "decodeImage", "toRGBA8", "createElement", "getContext",
      "createImageData", "putImageData", "toDataURL">>

\* What the browser does in one call: whether window.UTIF is defined, how
\* many frames UTIF.decode returns (0 also stands for a result that is not
\* an array), whether getContext('2d') returns a context, and which step
\* throws, if any.
TiffEnvs ==
    [ utif : BOOLEAN,
      frames : 0..MaxFrames,
      ctx : BOOLEAN,
      throwsAt : {"none"} \cup {DecodeSteps[n] : n \in 1..Len(DecodeSteps)} ]

\* The step at position n of DecodeSteps throws, or an earlier one did.
ThrownBy(env, step) ==
    \E n, m \in 1..Len(DecodeSteps) :
        /\ DecodeSteps[m] = step
        /\ DecodeSteps[n] = env.throwsAt
        /\ n <= m

DATA_URL == "data:image/jpeg"

\* A load handler without the try/catch: an exception leaves the handler
\* and resolve is not called.
onloadWithoutCatch(env) ==
    IF ~env.utif THEN <<"">>
    ELSE IF ThrownBy(env, "decode") THEN <<>>
    ELSE IF env.frames = 0 THEN <<"">>
    ELSE IF ThrownBy(env, "getContext") THEN <<>>
    ELSE IF ~env.ctx THEN <<"">>
    ELSE IF ThrownBy(env, "toDataURL") THEN <<>>
    ELSE <<DATA_URL>>

\* reader.onload: the arguments of the calls of resolve it makes, in order.
\* Every path through the try block calls resolve once and returns; the
\* catch block calls it once.
onload(env) ==
    IF ~env.utif THEN <<"">>
    ELSE IF ThrownBy(env, "decode") THEN <<"">>
    ELSE IF env.frames = 0 THEN <<"">>
    ELSE IF ThrownBy(env, "getContext") THEN <<"">>
    ELSE IF ~env.ctx THEN <<"">>
    ELSE IF ThrownBy(env, "toDataURL") THEN <<"">>
    ELSE <<DATA_URL>>

\* reader.onerror
onerror(env) == <<"">>

\* The promise is fulfilled by the first call of resolve; later calls have
\* no effect on it.
Settle(calls) == IF calls = <<>> THEN "reading" ELSE "fulfilled"

\* The executor has run: the reader exists, both handlers are set and
\* readAsArrayBuffer(file) has started the read.
InitTiff ==
    /\ tfEnv \in TiffEnvs
    /\ tfPc = "reading"
    /\ tfEvent = "none"
    /\ tfResolved = <<>>
    /\ LinkIdle
    /\ CsvIdle
    /\ GvIdle
    /\ NfIdle
    /\ GcIdle
    /\ AppIdle

\* The read succeeded: the load event runs reader.onload.
LoadEvent ==
    /\ tfPc = "reading"
    /\ tfEvent = "none"
    /\ tfEvent' = "load"
    /\ tfResolved' = tfResolved \o onload(tfEnv)
    /\ tfPc' = Settle(tfResolved')
    /\ UNCHANGED tfEnv
    /\ UNCHANGED notTfVars

\* The read failed: the error event runs reader.onerror.
ErrorEvent ==
    /\ tfPc = "reading"
    /\ tfEvent = "none"
    /\ tfEvent' = "error"
    /\ tfResolved' = tfResolved \o onerror(tfEnv)
    /\ tfPc' = Settle(tfResolved')
    /\ UNCHANGED tfEnv
    /\ UNCHANGED notTfVars

NextTiff == LoadEvent \/ ErrorEvent

SpecTiff == InitTiff /\ [][NextTiff]_vars

(* ---------------------------------------------------------------------- *)
(* handlePublish (src/App.tsx): the uploads of one publishing pass.  An   *)
(* upload settles in one of three ways: it returns { error: null }, it    *)
(* returns an error, or its promise rejects.                              *)
(* ---------------------------------------------------------------------- *)
MaxPhotos == 2

UploadOutcomes == {"ok", "error", "rejects"}

PublishNames == {<<"a", ".", "t", "i", "f">>, <<"b", ".", "j", "p", "g">>,
                 <<"c", ".", "j", "s", "o", "n">>}

PublishPreviews == {"", "blob:url", "data:image/jpeg"}

PublishPool == [originalName : PublishNames, previewUrl : PublishPreviews]

\* photo.id: generateId() gave every entry its own string.
PhotoId(n) == <<"i", "d", <<"1", "2", "3", "4", "5", "6", "7", "8", "9">>[n]>>

\* photo.previewUrl.startsWith('data:')
StartsWithData(previewUrl) == previewUrl = "data:image/jpeg"

\* isTiff && photo.previewUrl && photo.previewUrl.startsWith('data:')
WantsPreviewFile(photo) ==
    IsTiff(photo.originalName) /\ photo.previewUrl # "" /\ StartsWithData(photo.previewUrl)

\* `${photo.id}_${photo.originalName}`
StorageFileName(photo) == photo.id \o <<"_">> \o photo.originalName

\* `${photo.id}_preview.jpg`
PreviewStorageName(photo) ==
    photo.id \o <<"_", "p", "r", "e", "v", "i", "e", "w", ".", "j", "p", "g">>

\* `${photo.id}_${photo.originalName.replace(/\.[^/.]+$/, '')}.json`
MetadataFileName(photo) ==
    photo.id \o <<"_">> \o RemoveExtension(photo.originalName) \o <<".", "j", "s", "o", "n">>

\* upload(name, body, { upsert: true }) that succeeded
Upsert(bucket, name, object) ==
    [x \in (DOMAIN bucket) \cup {name} |-> IF x = name THEN object ELSE bucket[x]]

\* What the bucket holds under a name: the kind of body, the photo it was
\* made for and, in a metadata object, its previewUrl.
StoredObject(kind, photo, previewUrl) ==
    [kind |-> kind, id |-> photo.id, previewUrl |-> previewUrl]

\* One settled upload call.
UploadCall(position, kind, name, outcome) ==
    [photo |-> position, kind |-> kind, name |-> name, outcome |-> outcome]

InitPublish ==
    /\ newPhotos \in
          { [n \in 1..Len(s) |->
                [id |-> PhotoId(n), originalName |-> s[n].originalName,
                 previewUrl |-> s[n].previewUrl]] : s \in SeqsUpTo(PublishPool, MaxPhotos) }
    /\ pubPc = "start"
    /\ pubIdx = 1
    /\ previewFile = <<>>
    /\ publicPreviewUrl = <<>>
    /\ storage = <<>>
    /\ uploads = <<>>
    /\ loading = FALSE
    /\ view = "admin"
    /\ LinkIdle
    /\ CsvIdle
    /\ GvIdle
    /\ FunctionsIdle
    /\ GalIdle

\* setLoading(true) and the start of the loop.
StartPublish ==
    /\ pubPc = "start"
    /\ loading' = TRUE
    /\ pubPc' = "loop"
    /\ UNCHANGED <<newPhotos, pubIdx, previewFile, publicPreviewUrl, storage, uploads, view>>
    /\ UNCHANGED notPubVars

\* Lines 103-127: the files of one photo are prepared and the upload of the
\* original is called.  dataURLtoFile returns a File or throws.
PrepareFiles ==
    /\ pubPc = "loop"
    /\ pubIdx <= Len(newPhotos)
    /\ \E made \in (IF WantsPreviewFile(newPhotos[pubIdx]) THEN {"file", "throws"}
                                                          ELSE {"none"}) :
          /\ previewFile' = IF made = "file" THEN <<PreviewStorageName(newPhotos[pubIdx])>>
                                            ELSE <<>>
          /\ pubPc' = IF made = "throws" THEN "caught" ELSE "original"
    /\ UNCHANGED <<newPhotos, pubIdx, publicPreviewUrl, storage, uploads, loading, view>>
    /\ UNCHANGED notPubVars

\* An upload of the original whose error does not end the iteration.
OriginalSettlesWithoutContinue ==
    /\ pubPc = "original"
    /\ \E outcome \in UploadOutcomes :
          LET photo == newPhotos[pubIdx]
              name == StorageFileName(photo)
          IN  /\ uploads' = Append(uploads, UploadCall(pubIdx, "original", name, outcome))
              /\ storage' = IF outcome = "ok"
                            THEN Upsert(storage, name, StoredObject("original", photo, <<>>))
                            ELSE storage
              /\ pubPc' = IF outcome = "rejects" THEN "caught"
                          ELSE IF previewFile # <<>> THEN "preview" ELSE "metadata"
              /\ publicPreviewUrl' = <<>>
              /\ pubIdx' = pubIdx
    /\ UNCHANGED <<newPhotos, previewFile, loading, view>>
    /\ UNCHANGED notPubVars

\* Lines 121-135: the upload of the original settles.  An error is logged
\* and the loop continues with the next photo; otherwise publicPreviewUrl
\* is declared null and the preview upload, if there is a preview file, or
\* the metadata upload is called.
OriginalSettles ==
    /\ pubPc = "original"
    /\ \E outcome \in UploadOutcomes :
          LET photo == newPhotos[pubIdx]
              name == StorageFileName(photo)
          IN  /\ uploads' = Append(uploads, UploadCall(pubIdx, "original", name, outcome))
              /\ storage' = IF outcome = "ok"
                            THEN Upsert(storage, name, StoredObject("original", photo, <<>>))
                            ELSE storage
              /\ pubPc' = IF outcome = "rejects" THEN "caught"
                          ELSE IF outcome = "error" THEN "loop"
                          ELSE IF previewFile # <<>> THEN "preview" ELSE "metadata"
              /\ publicPreviewUrl' = IF outcome = "ok" THEN <<>> ELSE publicPreviewUrl
              /\ pubIdx' = IF outcome = "error" THEN pubIdx + 1 ELSE pubIdx
    /\ UNCHANGED <<newPhotos, previewFile, loading, view>>
    /\ UNCHANGED notPubVars

\* Lines 137-196: the upload of the preview settles; its public URL is kept
\* when it succeeded, and the metadata upload is called.
PreviewSettles ==
    /\ pubPc = "preview"
    /\ \E outcome \in UploadOutcomes :
          LET photo == newPhotos[pubIdx]
              name == previewFile[1]
          IN  /\ uploads' = Append(uploads, UploadCall(pubIdx, "preview", name, outcome))
              /\ storage' = IF outcome = "ok"
                            THEN Upsert(storage, name, StoredObject("preview", photo, <<>>))
                            ELSE storage
              /\ publicPreviewUrl' = IF outcome = "ok" THEN <<name>> ELSE publicPreviewUrl
              /\ pubPc' = IF outcome = "rejects" THEN "caught" ELSE "metadata"
    /\ UNCHANGED <<newPhotos, pubIdx, previewFile, loading, view>>
    /\ UNCHANGED notPubVars

\* metadata.previewUrl: publicPreviewUrl || originalUrlData.publicUrl
MetadataPreviewUrl(photo, previewUrl) ==
    IF previewUrl # <<>> THEN previewUrl[1] ELSE StorageFileName(photo)

\* Lines 190-197: the upload of the metadata settles; what it returned is
\* not looked at, and the iteration is over.
MetadataSettles ==
    /\ pubPc = "metadata"
    /\ \E outcome \in UploadOutcomes :
          LET photo == newPhotos[pubIdx]
              name == MetadataFileName(photo)
          IN  /\ uploads' = Append(uploads, UploadCall(pubIdx, "metadata", name, outcome))
              /\ storage' = IF outcome = "ok"
                            THEN Upsert(storage, name,
                                        StoredObject("metadata", photo,
                                                     MetadataPreviewUrl(photo, publicPreviewUrl)))
                            ELSE storage
              /\ pubPc' = IF outcome = "rejects" THEN "caught" ELSE "loop"
              /\ pubIdx' = IF outcome = "rejects" THEN pubIdx ELSE pubIdx + 1
    /\ UNCHANGED <<newPhotos, previewFile, publicPreviewUrl, loading, view>>
    /\ UNCHANGED notPubVars

\* Lines 199-206: the loop is over; loadPhotos() catches its own errors,
\* then setView('gallery') and, in finally, setLoading(false).
FinishPublish ==
    /\ pubPc = "loop"
    /\ pubIdx > Len(newPhotos)
    /\ view' = "gallery"
    /\ loading' = FALSE
    /\ pubPc' = "done"
    /\ UNCHANGED <<newPhotos, pubIdx, previewFile, publicPreviewUrl, storage, uploads>>
    /\ UNCHANGED notPubVars

\* Lines 201-206: catch and finally after something threw inside the loop.
CatchPublish ==
    /\ pubPc = "caught"
    /\ loading' = FALSE
    /\ pubPc' = "failed"
    /\ UNCHANGED <<newPhotos, pubIdx, previewFile, publicPreviewUrl, storage, uploads, view>>
    /\ UNCHANGED notPubVars

NextPublish ==
    \/ StartPublish
    \/ PrepareFiles
    \/ OriginalSettles
    \/ PreviewSettles
    \/ MetadataSettles
    \/ FinishPublish
    \/ CatchPublish

SpecPublish == InitPublish /\ [][NextPublish]_vars

(* ---------------------------------------------------------------------- *)
(* Gallery (src/unnamed/part_000): the mapping effect.  React runs an     *)
(* effect after the render that follows a state or prop update, and only  *)
(* when one of its dependencies [viewMode, photos] is another value than  *)
(* at its last run; before it runs again, the cleanup the last run        *)
(* returned is called.                                                    *)
(* ---------------------------------------------------------------------- *)
MaxGalleryPhotos == 2
MaxChanges == 3

ViewModes == {"grid", "timeline", "map"}

\* The fields of a photo the effect reads.
GalleryPool ==
    { [lat |-> <<432220>>, lng |-> <<768512>>, location |-> <<"a">>],
      [lat |-> <<511605>>, lng |-> <<714704>>, location |-> <<"b">>],
      [lat |-> <<>>, lng |-> <<>>, location |-> <<>>] }

\* p.lat && p.lng && p.location
HasPlace(p) ==
    /\ p.lat # <<>>
    /\ p.lat[1] # 0
    /\ p.lng # <<>>
    /\ p.lng[1] # 0
    /\ p.location # <<>>

\* `${p.lat.toFixed(4)},${p.lng.toFixed(4)}`
MarkerKey(p) == <<p.lat[1], p.lng[1]>>

\* photos.forEach(p => ...) from photo n on; markers in the order of
\* Object.values, which is the order in which the keys were added.
RECURSIVE CollectMarkers(_, _, _)
CollectMarkers(list, n, markers) ==
    IF n > Len(list) THEN markers
    ELSE IF ~HasPlace(list[n]) THEN CollectMarkers(list, n + 1, markers)
    ELSE LET at == {m \in 1..Len(markers) : markers[m].key = MarkerKey(list[n])}
         IN  IF at = {}
             THEN CollectMarkers(list, n + 1,
                                 Append(markers,
                                        [key |-> MarkerKey(list[n]), lat |-> list[n].lat[1],
                                         lng |-> list[n].lng[1], count |-> 1,
                                         location |-> list[n].location]))
             ELSE CollectMarkers(list, n + 1, [markers EXCEPT ![Min(at)].count = @ + 1])

Markers(list) == CollectMarkers(list, 1, <<>>)

\* mapContainerRef.current is set while renderMapView() is rendered.
MapContainerMounted(mode) == mode = "map"

\* The Gallery is mounted in grid mode and its effect has run once.
InitGallery ==
    /\ viewMode = "grid"
    /\ photos \in SeqsUpTo(GalleryPool, MaxGalleryPhotos)
    /\ photosRef = 0
    /\ windowL \in BOOLEAN
    /\ isMapLoading = FALSE
    /\ mapInstance = <<>>
    /\ checkInterval = FALSE
    /\ effectDeps = <<"grid", 0>>
    /\ pendingRender = FALSE
    /\ changes = 0
    /\ LinkIdle
    /\ CsvIdle
    /\ GvIdle
    /\ FunctionsIdle
    /\ PubIdle

\* A click on a view button: setViewMode(mode).
SetViewMode ==
    /\ changes < MaxChanges
    /\ \E mode \in ViewModes \ {viewMode} : viewMode' = mode
    /\ pendingRender' = TRUE
    /\ changes' = changes + 1
    /\ UNCHANGED <<photos, photosRef, windowL, isMapLoading, mapInstance, checkInterval,
                   effectDeps>>
    /\ UNCHANGED notGalVars

\* The parent passes another array of photos.
SetPhotos ==
    /\ changes < MaxChanges
    /\ photos' \in SeqsUpTo(GalleryPool, MaxGalleryPhotos)
    /\ photosRef' = photosRef + 1
    /\ pendingRender' = TRUE
    /\ changes' = changes + 1
    /\ UNCHANGED <<viewMode, windowL, isMapLoading, mapInstance, checkInterval, effectDeps>>
    /\ UNCHANGED notGalVars

\* The script of the mapping library has run: window.L is defined.
LoadLibrary ==
    /\ ~windowL
    /\ windowL' = TRUE
    /\ UNCHANGED <<viewMode, photos, photosRef, isMapLoading, mapInstance, checkInterval,
                   effectDeps, pendingRender, changes>>
    /\ UNCHANGED notGalVars

\* The callback of setInterval finds window.L: clearInterval and
\* setIsMapLoading(false).  While window.L is undefined it does nothing.
CheckLibrary ==
    /\ checkInterval
    /\ windowL
    /\ checkInterval' = FALSE
    /\ isMapLoading' = FALSE
    /\ pendingRender' = (pendingRender \/ isMapLoading)
    /\ UNCHANGED <<viewMode, photos, photosRef, windowL, mapInstance, effectDeps, changes>>
    /\ UNCHANGED notGalVars

\* A render and, when viewMode or photos changed since its last run, the
\* effect: first the cleanup (clearInterval), then the body.  Not in map
\* mode the map is removed; without window.L the effect sets isMapLoading
\* and starts polling; else it makes the map and adds the markers.
Render ==
    /\ pendingRender
    /\ IF <<viewMode, photosRef>> = effectDeps
       THEN /\ pendingRender' = FALSE
            /\ UNCHANGED <<isMapLoading, mapInstance, checkInterval, effectDeps>>
       ELSE /\ effectDeps' = <<viewMode, photosRef>>
            /\ IF viewMode # "map"
               THEN /\ mapInstance' = <<>>
                    /\ checkInterval' = FALSE
                    /\ UNCHANGED isMapLoading
                    /\ pendingRender' = FALSE
               ELSE IF ~windowL
               THEN /\ isMapLoading' = TRUE
                    /\ checkInterval' = TRUE
                    /\ UNCHANGED mapInstance
                    /\ pendingRender' = ~isMapLoading
               ELSE IF ~MapContainerMounted(viewMode)
               THEN /\ checkInterval' = FALSE
                    /\ UNCHANGED <<isMapLoading, mapInstance>>
                    /\ pendingRender' = FALSE
               ELSE /\ mapInstance' = <<Markers(photos)>>
                    /\ checkInterval' = FALSE
                    /\ UNCHANGED isMapLoading
                    /\ pendingRender' = FALSE
    /\ UNCHANGED <<viewMode, photos, photosRef, windowL, changes>>
    /\ UNCHANGED notGalVars

NextGallery ==
    \/ SetViewMode
    \/ SetPhotos
    \/ LoadLibrary
    \/ CheckLibrary
    \/ Render

SpecGallery == InitGallery /\ [][NextGallery]_vars

\* React renders after every update, the interval keeps firing while it is
\* set, and the library's script loads; nothing makes the user change the
\* view or the parent change the photos.
FairnessGallery == WF_vars(Render) /\ WF_vars(CheckLibrary) /\ WF_vars(LoadLibrary)

SpecGalleryFair == InitGallery /\ [][NextGallery]_vars /\ FairnessGallery

(* ---------------------------------------------------------------------- *)
(* Properties of linkPhotosToCsv, checked under Spec                      *)
(* ---------------------------------------------------------------------- *)
\* The valid inputs: the items of files that are File objects, in order.
ValidFiles == SelectSeq(files, LAMBDA f : f.isFile)

\* The identifier each row of the pool resolves to; '' when it resolves to
\* none.
IdentifierOf == [row \in RowPool |-> getValue(row, ID_KEYS)]

RowIdentifier(row) == IdentifierOf[row]

\* The rows that have an identifier.
IdentifiedRows == {n \in 1..Len(csvData) : RowIdentifier(csvData[n]) # <<>>}

\* The keys of the row index: the resolved identifiers that are not empty,
\* lowercased and trimmed.
IndexKeys == {trim(toLowerCase(RowIdentifier(csvData[n]))) : n \in IdentifiedRows}

\* The normalized name of the file an entry was built for.
NormalizedOf == [f \in FilePool |-> normalizeFilename(f.name)]

NormalizedNameOf(e) == NormalizedOf[files[e.file]]

\* Some row has an identifier that the normalized file name equals, letter
\* case aside.
HasRowFor(name) ==
    \E n \in IdentifiedRows :
        toLowerCase(trim(RowIdentifier(csvData[n]))) = toLowerCase(name)

\* C1: in every returned entry, status is 'matched' exactly when matchedId
\* is not null, and exactly when the row index holds the lowercased
\* normalized name of the entry's file.
C1_MatchedIffIndexed ==
    pc = "done" =>
        \A n \in 1..Len(result.photos) :
            LET e == result.photos[n]
                indexed == toLowerCase(NormalizedNameOf(e)) \in IndexKeys
            IN  /\ (e.status = "matched") <=> (e.matchedId # NULL)
                /\ (e.matchedId # NULL) <=> indexed

\* A call returned both a matched and an unmatched entry.
C1_Witness ==
    /\ pc = "done"
    /\ \E n \in 1..Len(result.photos) : result.photos[n].status = "matched"
    /\ \E n \in 1..Len(result.photos) : result.photos[n].status = "unmatched"

\* C2: the returned stats satisfy matched + unmatched = total, and matched
\* is the number of returned entries whose status is 'matched', also when
\* the list holds items that are not files.
C2_StatsAddUp ==
    pc = "done" =>
        /\ result.stats.matched + result.stats.unmatched = result.stats.total
        /\ result.stats.matched =
              Cardinality({n \in 1..Len(result.photos) :
                              result.photos[n].status = "matched"})

\* A call on a list holding an item that is not a file and a file with a
\* row returned one matched entry, the skipped item counted as unmatched.
C2_Witness ==
    /\ pc = "done"
    /\ \E n \in 1..Len(files) : ~files[n].isFile
    /\ result.stats.matched = 1
    /\ result.stats.unmatched = 1
    /\ Len(result.photos) = 1

\* C3: stats.total is the number of valid file inputs, which is the number
\* of entries returned, also when some items are skipped as not files.
C3_TotalIsValidCount ==
    pc = "done" =>
        /\ result.stats.total = Len(ValidFiles)
        /\ result.stats.total = Len(result.photos)

\* C4: one entry per valid File and none for the other items, in input
\* order: the k-th entry carries the name and the size of the k-th valid
\* file, at every moment of the pass and in the returned list, whose length
\* is the number of valid files.
C4_OneEntryPerValidFile ==
    /\ Len(processedPhotos) <= Len(ValidFiles)
    /\ \A n \in 1..Len(processedPhotos) :
          n <= Len(ValidFiles) =>
              /\ processedPhotos[n].originalName = ValidFiles[n].name
              /\ processedPhotos[n].fileSize = ValidFiles[n].size
    /\ pc = "done" =>
          /\ result.photos = processedPhotos
          /\ Len(result.photos) = Len(ValidFiles)

\* A call returned the entry of a file that came after an item that is not
\* a file.
C4_Witness ==
    /\ pc = "done"
    /\ Len(files) = 2
    /\ ~files[1].isFile
    /\ files[2].isFile
    /\ Len(result.photos) = 1

\* The fields of an entry other than its preview reference and its id.
OtherFields(e) == [x \in (DOMAIN e) \ {"previewUrl", "id"} |-> e[x]]

\* C5: when preview generation throws or rejects for a file, the call
\* still returns an entry for every valid input; that file's entry has
\* previewUrl '' and every other field as the file and the row index
\* determine it, whatever the preview did; the entries of the other files
\* keep the preview they were given.
C5_PreviewFailureIsolated ==
    /\ Len(previewLog) = Len(processedPhotos)
    /\ \A n \in 1..Len(processedPhotos) :
          /\ previewLog[n] \in {"throw", "reject"} => processedPhotos[n].previewUrl = ""
          /\ previewLog[n] = "url" => processedPhotos[n].previewUrl # ""
    /\ pc = "done" =>
          /\ Len(result.photos) = Len(ValidFiles)
          /\ Len(result.photos) = Len(previewLog)
          /\ \A n \in 1..Len(result.photos) :
                LET e == result.photos[n]
                IN  /\ previewLog[n] \in {"throw", "reject"} => e.previewUrl = ""
                    /\ OtherFields(e) = OtherFields(Locals(files[e.file], e.file, csvMap))

\* A call returned two entries, the first after a failed preview and the
\* second with its preview.
C5_Witness ==
    /\ pc = "done"
    /\ Len(result.photos) = 2
    /\ previewLog[1] \in {"throw", "reject"}
    /\ previewLog[2] = "url"
    /\ result.photos[1].status = "matched"

\* C6: a file whose normalized name equals, letter case aside, the trimmed
\* identifier of some row is linked with status 'matched', matchReason
\* 'OK' and matchedId the normalized name in the file's own letter case.
C6_CaseInsensitiveMatch ==
    \A n \in 1..Len(processedPhotos) :
        LET e == processedPhotos[n]
            name == NormalizedNameOf(e)
        IN  HasRowFor(name) =>
                /\ e.status = "matched"
                /\ e.matchReason = OK
                /\ e.matchedId = name

\* The file "A (1).TIF" was linked to a row whose identifier is "a".
C6_Witness ==
    \E n \in 1..Len(processedPhotos) :
        /\ processedPhotos[n].matchedId = <<"A">>
        /\ processedPhotos[n].status = "matched"
        /\ \E m \in 1..Len(csvData) : RowIdentifier(csvData[m]) = <<"a">>
        /\ \A m \in 1..Len(csvData) : RowIdentifier(csvData[m]) # <<"A">>

\* C7: a file with no corresponding row gives an entry with status
\* 'unmatched', matchedId null, a matchReason that contains the normalized
\* name, empty description, type, location, date, quantity and note, no
\* tags and no coordinates.
C7_UnmatchedEntryEmpty ==
    \A n \in 1..Len(processedPhotos) :
        LET e == processedPhotos[n]
            name == NormalizedNameOf(e)
        IN  ~HasRowFor(name) =>
                /\ e.status = "unmatched"
                /\ e.matchedId = NULL
                /\ includes(e.matchReason, name)
                /\ e.description = <<>>
                /\ e.type = <<>>
                /\ e.location = <<>>
                /\ e.date = <<>>
                /\ e.quantity = <<>>
                /\ e.note = <<>>
                /\ e.tags = <<>>
                /\ e.lat = <<>>
                /\ e.lng = <<>>

\* The file "b.tiff" was processed against rows none of which it matches.
C7_Witness ==
    /\ csvData # <<>>
    /\ \E n \in 1..Len(processedPhotos) :
          /\ processedPhotos[n].originalName = <<"b", ".", "t", "i", "f", "f">>
          /\ processedPhotos[n].status = "unmatched"

(* ---------------------------------------------------------------------- *)
(* Properties of getValue, checked under SpecGetValue                     *)
(* ---------------------------------------------------------------------- *)
\* The values of the row's columns whose header matches the alias (letter
\* case and surrounding whitespace aside) and that are non-empty after
\* trimming.
ValuesFor(row, alias) ==
    { trim(row[n].v) :
        n \in {m \in 1..Len(row) :
                  /\ trim(toLowerCase(row[m].k)) = toLowerCase(alias)
                  /\ trim(row[m].v) # <<>>} }

\* C8: getValue returns the trimmed value of the earliest alias that has a
\* matching column with a value that is non-empty after trimming, skipping
\* matching columns that are empty or whitespace-only, and '' only when no
\* alias has such a column.
C8_FirstNonEmptyAlias ==
    gvPc = "done" =>
        LET good == {a \in 1..Len(gvKeys) : ValuesFor(gvRow, gvKeys[a]) # {}}
        IN  IF good = {} THEN gvOut = <<>>
            ELSE gvOut \in ValuesFor(gvRow, gvKeys[Min(good)])

(* ---------------------------------------------------------------------- *)
(* Properties of parseCSV, checked under SpecCsv and SpecRoundTrip        *)
(* ---------------------------------------------------------------------- *)
KeySet(row) == {row[n].k : n \in 1..Len(row)}

\* The value of a row's property.
RowValue(row, key) == row[CHOOSE n \in 1..Len(row) : row[n].k = key].v

DistinctHeaders(table) ==
    \A a, b \in 1..Len(table.header) :
        a # b => trim(table.header[a]) # trim(table.header[b])

\* The rows are the data records of the table, in order, field by field.
RoundTrips(table, out) ==
    /\ Len(out) = Len(table.data)
    /\ \A r \in 1..Len(out) :
          \A c \in 1..Len(table.header) :
              /\ trim(table.header[c]) \in KeySet(out[r])
              /\ RowValue(out[r], trim(table.header[c])) = table.data[r][c]

\* No record of the table, header or data, is a single empty field.
NoLoneEmptyField(table) ==
    \/ Len(table.header) > 1
    \/ /\ table.header[1] # <<>>
       /\ \A r \in 1..Len(table.data) : table.data[r][1] # <<>>

C11_BaseRecovered ==
    nfPc = "done" =>
        \A b \in BasePool :
            /\ nfName = b => nfOut = b
            /\ \A d \in DigitsPool, e \in ExtPool :
                  nfName = DuplicateName(b, d, e) => nfOut = b

\* "Aa (012).TIF" was normalized to "Aa".
C11_Witness ==
    /\ nfPc = "done"
    /\ nfName = DuplicateName(<<"A", "a">>, <<"0", "1", "2">>, <<"T", "I", "F">>)
    /\ nfOut = <<"A", "a">>

(* ---------------------------------------------------------------------- *)
(* Properties of getCoordinates, checked under SpecCoordinates            *)
(* ---------------------------------------------------------------------- *)
\* s is k written in some letter case.
CaseVariant(s, k) ==
    /\ Len(s) = Len(k)
    /\ \A n \in 1..Len(k) : s[n] \in {k[n], UpperChar(k[n])}

\* C12: for every key k of the table, the call on k, on k in any letter
\* case and on k behind "g. ", "g." or "g " (the Cyrillic abbreviation)
\* returns the table's pair for k.
C12_KeyVariantsResolve ==
    gcPc = "done" =>
        \A n \in 1..Len(COORDINATE_DB) :
            LET k == COORDINATE_DB[n].key
            IN  (\/ CaseVariant(gcLocation, k)
                 \/ \E p \in CityPrefixes : gcLocation = p \o k)
                => gcOut = COORDINATE_DB[n].coords

\* The call on the second key in capitals returned the second pair.
C12_Witness ==
    /\ gcPc = "done"
    /\ gcLocation = Capitals(COORDINATE_DB[2].key)
    /\ gcLocation # COORDINATE_DB[2].key
    /\ gcOut = COORDINATE_DB[2].coords

\* The input after lowercasing, stripping of the leading abbreviation and
\* trimming, as the contract describes the normalization.
NormalizedLocation(location) == trim(StripCityPrefix(toLowerCase(location)))

\* A table key equals s, is a part of s, or has the not empty s as a part.
RelatedToSomeKey(s) ==
    \E k \in TableKeys : k = s \/ includes(s, k) \/ (s # <<>> /\ includes(k, s))

\* C14: the call returns null when the input is empty, when it is empty
\* after normalization (a bare "g." for one), and when no table key is
\* related to the normalized input by equality or containment.
C14_NotFoundIsNull ==
    ( /\ gcPc = "done"
      /\ \/ gcLocation = <<>>
         \/ NormalizedLocation(gcLocation) = <<>>
         \/ ~RelatedToSomeKey(NormalizedLocation(gcLocation)) )
    => gcOut = <<>>

(* ---------------------------------------------------------------------- *)
(* Coordinates of the entries, checked under Spec                         *)
(* ---------------------------------------------------------------------- *)
\* What getCoordinates returns for each location a row of the pool has.
CoordinatesOf ==
    [loc \in {getValue(row, LOCATION_KEYS) : row \in RowPool} \cup {<<>>} |->
        getCoordinates(loc)]

TablePairs == {COORDINATE_DB[n].coords : n \in 1..Len(COORDINATE_DB)}

\* C13: in every returned entry lat and lng are both defined or both
\* undefined, and they are defined only if the entry's location is not
\* empty and getCoordinates resolved it to a pair of the table.
C13_LatLngTogether ==
    pc = "done" =>
        \A n \in 1..Len(result.photos) :
            LET e == result.photos[n]
            IN  /\ (e.lat = <<>>) <=> (e.lng = <<>>)
                /\ e.lat # <<>> =>
                      /\ e.location # <<>>
                      /\ CoordinatesOf[e.location] = <<e.lat[1], e.lng[1]>>
                      /\ <<e.lat[1], e.lng[1]>> \in TablePairs

\* A call returned an entry with both coordinates and a matched entry with
\* neither.
C13_Witness ==
    /\ pc = "done"
    /\ \E n \in 1..Len(result.photos) :
          /\ result.photos[n].lat = <<432551>>
          /\ result.photos[n].lng = <<769126>>
    /\ \E n \in 1..Len(result.photos) :
          /\ result.photos[n].status = "matched"
          /\ result.photos[n].lat = <<>>
          /\ result.photos[n].lng = <<>>

(* ---------------------------------------------------------------------- *)
(* Properties of convertTiffToPreview, checked under SpecTiff             *)
(* ---------------------------------------------------------------------- *)
\* The read ended in an error, the decoder is missing, there is no frame,
\* there is no canvas context, or a step of the decoding throws.
DecodeFails ==
    \/ tfEvent = "error"
    \/ ~tfEnv.utif
    \/ tfEnv.frames = 0
    \/ ~tfEnv.ctx
    \/ tfEnv.throwsAt # "none"

\* C15: once the load or the error event of the read has been handled, the
\* promise is fulfilled, resolve was called exactly once, and the value is
\* the empty string whenever the read or the decoding failed.
C15_ResolvesOnceNeverRejects ==
    tfEvent # "none" =>
        /\ tfPc = "fulfilled"
        /\ Len(tfResolved) = 1
        /\ DecodeFails => tfResolved[1] = ""

\* A load event whose decoding threw at toRGBA8 resolved the promise to ''.
C15_Witness ==
    /\ tfEvent = "load"
    /\ tfEnv.utif
    /\ tfEnv.frames > 0
    /\ tfEnv.throwsAt = "toRGBA8"
    /\ tfPc = "fulfilled"
    /\ tfResolved = <<"">>

(* ---------------------------------------------------------------------- *)
(* Order of processing, checked under Spec                                *)
(* ---------------------------------------------------------------------- *)
\* The File objects among the first n items of files.
ValidBefore(n) == {m \in 1..Len(files) : m < n /\ files[m].isFile}

\* C16: at any moment at most one preview conversion is pending, and the
\* iteration for a file is not started before the entry of every earlier
\* file is in the output: while the loop stands at position idx, the
\* output holds exactly the entries of the valid files before idx, and a
\* pending conversion is that of the file at idx.
C16_StrictlySequential ==
    /\ Len(cur) <= 1
    /\ pc \in {"loop", "await", "done"} =>
          /\ Len(processedPhotos) = Cardinality(ValidBefore(idx))
          /\ \A n \in 1..Len(processedPhotos) : processedPhotos[n].file < idx
          /\ \A n \in 1..Len(cur) : pc = "await" /\ cur[n].file = idx
          /\ pc = "await" => Len(cur) = 1

\* The conversion of the second file is pending and the entry of the
\* first, a converted TIFF, is in the output.
C16_Witness ==
    /\ pc = "await"
    /\ idx = 2
    /\ Len(cur) = 1
    /\ Len(processedPhotos) = 1
    /\ processedPhotos[1].previewUrl = "data:image/jpeg"

(* ---------------------------------------------------------------------- *)
(* Records, line ends and headers of parseCSV, checked under SpecCsv      *)
(* ---------------------------------------------------------------------- *)
IsLineEnd(c) == c \in {"\n", "\r"}

\* The lines of a text that are not empty: each starts at a character that
\* is no line end and follows a line end or starts the text.
NonBlankLines(text) ==
    {n \in 1..Len(text) : ~IsLineEnd(text[n]) /\ (n = 1 \/ IsLineEnd(text[n - 1]))}

HasQuote(text) == \E n \in 1..Len(text) : text[n] = "\""

\* C17: every record the scanner emits, at a newline or at the final flush,
\* has more than one field or one non-empty field; blank lines, a trailing
\* newline included, give no record and no Row: a text without quotes has
\* one record for each line that is not empty, and one Row for each record
\* after the header record.
C17_NoBlankRecords ==
    csvPc = "done" =>
        /\ \A n \in 1..Len(csvRows) :
              \/ Len(csvRows[n]) > 1
              \/ Len(csvRows[n]) = 1 /\ csvRows[n][1] # <<>>
        /\ ~HasQuote(csvText) => Len(csvRows) = Cardinality(NonBlankLines(csvText))
        /\ Len(csvOut) = IF csvRows = <<>> THEN 0 ELSE Len(csvRows) - 1

\* "a", a blank line, "a" and a trailing newline gave two records and one
\* Row.
C17_Witness ==
    /\ csvPc = "done"
    /\ csvText = <<"a", "\n", "\n", "a", "\n">>
    /\ Len(csvRows) = 2
    /\ Len(csvOut) = 1

\* The headers after trimming, as the keys of the Rows.
TrimmedHeaders == [m \in 1..Len(csvRows[1]) |-> trim(csvRows[1][m])]

\* The header at position m is not repeated at a later position.
LastOfItsName(hs, m) == \A k \in (m + 1)..Len(hs) : hs[k] # hs[m]

RECURSIVE WithLineEnds(_, _, _, _)
WithLineEnds(text, i, inQuotes, eol) ==
    IF i > Len(text) THEN <<>>
    ELSE IF text[i] = "\""
         THEN IF inQuotes /\ i + 1 <= Len(text) /\ text[i + 1] = "\""
              THEN <<"\"", "\"">> \o WithLineEnds(text, i + 2, inQuotes, eol)
              ELSE <<"\"">> \o WithLineEnds(text, i + 1, ~inQuotes, eol)
    ELSE IF text[i] = "\n" /\ ~inQuotes
         THEN eol \o WithLineEnds(text, i + 1, inQuotes, eol)
    ELSE <<text[i]>> \o WithLineEnds(text, i + 1, inQuotes, eol)

\* C19: writing every record-terminating "\n" of a text as "\r\n" or as a
\* bare "\r" gives the same sequence of Rows.
C19_LineEndInsensitive ==
    csvPc = "done" =>
        /\ parseCSV(WithLineEnds(csvText, 1, FALSE, <<"\r", "\n">>)) = csvOut
        /\ parseCSV(WithLineEnds(csvText, 1, FALSE, <<"\r">>)) = csvOut

\* A text with a record-terminating newline and a newline inside a quoted
\* field gave one Row, whose value is that newline.
C19_Witness ==
    /\ csvPc = "done"
    /\ csvText = <<"a", "\n", "\"", "\n", "\"">>
    /\ csvOut = << <<[k |-> <<"a">>, v |-> <<"\n">>]>> >>

\* Trimming that takes blanks, tabs and line ends but not the byte-order
\* mark.
RECURSIVE TrimBlanks(_)
TrimBlanks(s) ==
    IF s # <<>> /\ Head(s) \in {" ", "\t", "\n", "\r"} THEN TrimBlanks(Tail(s))
    ELSE IF s # <<>> /\ s[Len(s)] \in {" ", "\t", "\n", "\r"}
         THEN TrimBlanks(SubSeq(s, 1, Len(s) - 1))
    ELSE s

\* The key the claim gives the header at position m.
ClaimedHeader(m, h) ==
    LET t == TrimBlanks(h)
    IN  IF m = 1 /\ t # <<>> /\ Head(t) = BOM THEN TrimBlanks(Tail(t)) ELSE t

\* C20: every header is trimmed and a leading byte-order mark is stripped
\* from the first header only; at the start of any other header it stays
\* in the key.
C20_BomStrippedFromFirstOnly ==
    csvPc = "done" =>
        \A n \in 1..Len(csvOut) :
            KeySet(csvOut[n]) =
                {ClaimedHeader(m, csvRows[1][m]) : m \in 1..Len(csvRows[1])}

(* ---------------------------------------------------------------------- *)
(* The row index and the enrichment, checked under Spec                   *)
(* ---------------------------------------------------------------------- *)
Max(S) == CHOOSE x \in S : \A y \in S : x >= y

\* The key each row of the pool is indexed under: its identifier,
\* lowercased and trimmed.
KeyOfRow == [row \in RowPool |-> trim(toLowerCase(IdentifierOf[row]))]

\* The last row, in row order, that resolves to a key.
LastRowFor(key) == csvData[Max({n \in IdentifiedRows : KeyOfRow[csvData[n]] = key})]

\* What each row of the pool resolves to, field by field.
FieldsOf ==
    [row \in RowPool |->
        [ description |-> getValue(row, DESCRIPTION_KEYS),
          type |-> getValue(row, TYPE_KEYS),
          location |-> getValue(row, LOCATION_KEYS),
          date |-> getValue(row, DATE_KEYS),
          quantity |-> getValue(row, QUANTITY_KEYS),
          note |-> getValue(row, NOTE_KEYS) ]]

\* C21: when several rows resolve to one identifier after lowercasing and
\* trimming, the index holds the last of them in row order, and a file
\* matching that key takes every field from that last row; rows whose
\* identifier is empty are not indexed.
C21_LastRowWins ==
    /\ pc \in {"loop", "await", "done"} =>
          /\ DOMAIN csvMap = IndexKeys
          /\ \A key \in DOMAIN csvMap : csvMap[key] = LastRowFor(key)
    /\ pc = "done" =>
          \A n \in 1..Len(result.photos) :
              LET e == result.photos[n]
              IN  e.status = "matched" =>
                     LET f == FieldsOf[LastRowFor(toLowerCase(NormalizedNameOf(e)))]
                     IN  /\ e.type = f.type
                         /\ e.location = f.location
                         /\ e.date = f.date
                         /\ e.quantity = f.quantity
                         /\ e.note = f.note
                         /\ e.description =
                               IF f.description = <<>> THEN NO_TITLE ELSE f.description

\* Two rows with the key "a", the full one first: the file took its fields
\* from the second, which has no location.
C21_Witness ==
    /\ pc = "done"
    /\ csvData = <<RowFull, RowUpperId>>
    /\ \E n \in 1..Len(result.photos) :
          /\ result.photos[n].status = "matched"
          /\ result.photos[n].location = <<>>
          /\ result.photos[n].date = <<"t">>

\* C22: the tags of every entry are its type, its location and its date in
\* this order, each only if it is not empty, equal values repeated and
\* nothing else added.
C22_TagsInOrder ==
    pc = "done" =>
        \A n \in 1..Len(result.photos) :
            LET e == result.photos[n]
            IN  e.tags = SelectSeq(<<e.type, e.location, e.date>>, LAMBDA s : s # <<>>)

\* An entry whose type and date are both "t" has the tag "t" twice.
C22_Witness ==
    /\ pc = "done"
    /\ \E n \in 1..Len(result.photos) :
          /\ result.photos[n].type = <<"t">>
          /\ result.photos[n].date = <<"t">>
          /\ result.photos[n].tags = << <<"t">>, <<"t">> >>

\* C23: the description is the placeholder exactly when the file matched a
\* row whose resolved description is empty (or is the placeholder itself);
\* for an unmatched file it is the empty string.
C23_PlaceholderOnlyOnMatch ==
    pc = "done" =>
        \A n \in 1..Len(result.photos) :
            LET e == result.photos[n]
                key == toLowerCase(NormalizedNameOf(e))
                matched == key \in IndexKeys
                missing == FieldsOf[LastRowFor(key)].description \in {<<>>, NO_TITLE}
            IN  /\ (e.description = NO_TITLE) <=> (matched /\ missing)
                /\ ~matched => e.description = <<>>

\* A call returned a matched entry with the placeholder and a matched entry
\* with the description of its row.
C23_Witness ==
    /\ pc = "done"
    /\ \E n \in 1..Len(result.photos) :
          /\ result.photos[n].status = "matched"
          /\ result.photos[n].description = NO_TITLE
    /\ \E n \in 1..Len(result.photos) :
          /\ result.photos[n].status = "matched"
          /\ result.photos[n].description = <<"n">>

\* C27: the index never holds the empty key and matchedId is never the
\* empty string: a file whose normalized name is empty is unmatched,
\* whatever the rows.
C27_NoEmptyKey ==
    /\ <<>> \notin DOMAIN csvMap
    /\ pc = "done" =>
          \A n \in 1..Len(result.photos) :
              LET e == result.photos[n]
              IN  /\ e.matchedId # <<>>
                  /\ NormalizedNameOf(e) = <<>> =>
                        e.status = "unmatched" /\ e.matchedId = NULL

\* ".png", whose normalized name is empty, came back unmatched from a call
\* with a row whose first identifier column is blank.
C27_Witness ==
    /\ pc = "done"
    /\ \E m \in 1..Len(csvData) : csvData[m] = RowBlankCode
    /\ \E n \in 1..Len(result.photos) :
          /\ result.photos[n].originalName = <<".", "p", "n", "g">>
          /\ result.photos[n].status = "unmatched"

\* C28: stats.unmatched is the number of returned entries whose status is
\* 'unmatched', also when items that are not files were skipped.
C28_UnmatchedCountsEntries ==
    pc = "done" =>
        result.stats.unmatched =
            Cardinality({n \in 1..Len(result.photos) :
                            result.photos[n].status = "unmatched"})

(* ---------------------------------------------------------------------- *)
(* The order of the lookup, checked under SpecCoordinates                 *)
(* ---------------------------------------------------------------------- *)
\* The table entries whose key is a part of s or has s as a part; every
\* key has the empty string as a part.
RelatedEntries(s) ==
    {n \in 1..Len(COORDINATE_DB) :
        includes(s, COORDINATE_DB[n].key) \/ includes(COORDINATE_DB[n].key, s)}

\* The pair of the table key s.
PairOfKey(s) == COORDINATE_DB[CHOOSE n \in 1..Len(COORDINATE_DB) : COORDINATE_DB[n].key = s].coords

\* The result is the pair of the normalized input when that is a key, and
\* else the pair of the first related entry, when there is one.
ExactThenFirstRelated ==
    LET s == NormalizedLocation(gcLocation)
    IN  /\ s \in TableKeys => gcOut = PairOfKey(s)
        /\ (s \notin TableKeys /\ RelatedEntries(s) # {}) =>
              gcOut = COORDINATE_DB[Min(RelatedEntries(s))].coords

\* C24 as stated: for every input the call returns the pair of the
\* normalized input when it is a table key, and otherwise the pair of the
\* first table entry whose key is a part of the normalized input or has it
\* as a part.
C24_ExactThenFirstRelatedAnyInput ==
    gcPc = "done" => ExactThenFirstRelated

\* C24, for an input that is not the empty string: the pair of the
\* normalized input when it is a table key, otherwise the pair of the first
\* table entry, in table order, whose key is a part of the normalized input
\* or has it as a part.
C24_ExactThenFirstRelated ==
    (gcPc = "done" /\ gcLocation # <<>>) => ExactThenFirstRelated

\* An input that is a part of three keys got the pair of the first of
\* them, the twelfth entry of the table.
C24_Witness ==
    /\ gcPc = "done"
    /\ gcLocation = <<"u0430", "u043d">>
    /\ Min(RelatedEntries(gcLocation)) = 12
    /\ Cardinality(RelatedEntries(gcLocation)) >= 3
    /\ gcOut = COORDINATE_DB[12].coords

(* ---------------------------------------------------------------------- *)
(* The extension, checked under SpecNormalize                             *)
(* ---------------------------------------------------------------------- *)
\* A name on which the later steps do nothing: no parenthesis and no
\* whitespace in it.
PlainName(name) == \A n \in 1..Len(name) : name[n] \notin {"(", ")", " "}

HasDot(name) == \E n \in 1..Len(name) : name[n] = "."

\* The name up to its last ".", the dot not included.
BeforeLastDot(name) ==
    SubSeq(name, 1, Max({n \in 1..Len(name) : name[n] = "."}) - 1)

\* C25: for a name with a "." the last "." and everything after it is
\* removed, also when the name ends in "." or when a "/" follows the last
\* "."; for a name without "." nothing is removed as an extension.
C25_LastDotAndRestRemoved ==
    (nfPc = "done" /\ PlainName(nfName)) =>
        nfOut = IF HasDot(nfName) THEN BeforeLastDot(nfName) ELSE nfName

(* ---------------------------------------------------------------------- *)
(* Termination, checked under SpecFair                                    *)
(* ---------------------------------------------------------------------- *)
\* The positions of the File objects in files, in order.
ValidPositions == SelectSeq([n \in 1..Len(files) |-> n], LAMBDA n : files[n].isFile)

\* The call has returned, with one entry for every valid file, each file
\* once and in order.
Returned ==
    /\ pc = "done"
    /\ Len(result.photos) = Len(ValidPositions)
    /\ \A n \in 1..Len(result.photos) : result.photos[n].file = ValidPositions[n]

\* C26: when every preview conversion settles, a call on a finite list
\* eventually returns, having processed every valid file exactly once,
\* whatever failures the preview generation of single files had.
C26_Terminates == <>Returned

\* A call returned after a rejected conversion and a throwing
\* createObjectURL.
C26_Witness ==
    /\ Returned
    /\ \E n \in 1..Len(previewLog) : previewLog[n] = "reject"
    /\ \E n \in 1..Len(previewLog) : previewLog[n] = "throw"

(* ---------------------------------------------------------------------- *)
(* Properties of handlePublish, checked under SpecPublish                 *)
(* ---------------------------------------------------------------------- *)
\* The upload calls made for the photo at a position, in order.
UploadsOf(position) == SelectSeq(uploads, LAMBDA u : u.photo = position)

OriginalReturned(position, outcome) ==
    \E n \in 1..Len(uploads) :
        /\ uploads[n].photo = position
        /\ uploads[n].kind = "original"
        /\ uploads[n].outcome = outcome

\* C29: a preview or metadata upload of a photo comes after an upload of
\* its original that returned without error; after an original upload that
\* returned an error nothing more is uploaded for the photo, the loop is at
\* a later photo, and the bucket holds no metadata made for the photo.
C29_OriginalFirst ==
    /\ \A n \in 1..Len(uploads) :
          uploads[n].kind \in {"preview", "metadata"}
              => \E m \in 1..(n - 1) :
                    /\ uploads[m].photo = uploads[n].photo
                    /\ uploads[m].kind = "original"
                    /\ uploads[m].outcome = "ok"
    /\ \A position \in 1..Len(newPhotos) :
          OriginalReturned(position, "error")
              => /\ Len(UploadsOf(position)) = 1
                 /\ pubIdx > position
                 /\ \A name \in DOMAIN storage :
                       ~(storage[name].kind = "metadata"
                            /\ storage[name].id = newPhotos[position].id)

\* A finished pass in which the original of the first photo returned an
\* error and the second photo was stored with its metadata.
C29_Witness ==
    /\ pubPc = "done"
    /\ Len(newPhotos) = 2
    /\ OriginalReturned(1, "error")
    /\ MetadataFileName(newPhotos[2]) \in DOMAIN storage
    /\ storage[MetadataFileName(newPhotos[2])].kind = "metadata"

(* ---------------------------------------------------------------------- *)
(* Properties of the Gallery's map, checked under SpecGalleryFair         *)
(* ---------------------------------------------------------------------- *)
\* The map exists and carries the markers of the photos.
MapShown == mapInstance = <<Markers(photos)>>

\* C30: when the map view is active and window.L is undefined, then, once
\* the library has loaded, the map is made and gets its markers, unless the
\* view mode or the photos are set again.
C30_MapMadeAfterLibraryLoads ==
    \A k \in 0..MaxChanges :
        (viewMode = "map" /\ ~windowL /\ changes = k) ~> (MapShown \/ changes # k)

====
